---- MODULE Spec2Model ----
(***************************************************************************)
(* A model of the backtesting strategies of make-my-trade:                 *)
(*   - FilteredDonchianStrategy   (src/strategies/donchian_strategy.py)    *)
(*   - SMAStrategy                (src/strategies/sma_strategy.py)         *)
(*   - SimpleMovingAverageProfitStrategy, SimpleMovingAverageProfitStrategy1 *)
(*                                (src/strategies/sma_profit_strategy.py)  *)
(*   - Backtester                 (src/backtest/backtester.py)             *)
(* Floating point numbers are modelled as exact rationals <<n, d>> in      *)
(* lowest terms with d > 0; <<0, 0>> is NaN and <<1, 0>>, <<-1, 0>> are    *)
(* the infinities that pandas produces for a division by zero.             *)
(***************************************************************************)
EXTENDS Integers, Sequences, FiniteSets, TLC

(***************************************************************************)
(* Bounds of the model.                                                    *)
(***************************************************************************)
\* longest bar sequence given to FilteredDonchianStrategy.backtest
MaxBars == 3
\* longest bar sequence given to SimpleMovingAverageProfitStrategy.backtest
MaxProfitBars == 5
\* longest bar sequence given to SMAStrategy.backtest
MaxSmaBars == 4

(***************************************************************************)
(* Float arithmetic.                                                       *)
(***************************************************************************)
NaN == <<0, 0>>

Abs(x) == IF x < 0 THEN -x ELSE x

Sign(x) == IF x < 0 THEN -1 ELSE IF x > 0 THEN 1 ELSE 0

RECURSIVE GCD(_, _)
GCD(a, b) == IF b = 0 THEN a ELSE GCD(b, a % b)

\* n / d as a float: lowest terms, 0/0 = NaN, x/0 = +-inf
Rat(n, d) ==
    IF d = 0 THEN <<Sign(n), 0>>
    ELSE LET g == GCD(Abs(n), Abs(d))
             s == IF d < 0 THEN -1 ELSE 1
         IN  <<(s * n) \div g, (s * d) \div g>>

R(n) == <<n, 1>>

IsNaN(x) == x = NaN

IsFinite(x) == x[2] # 0

RAdd(x, y) ==
    IF IsFinite(x) /\ IsFinite(y) THEN Rat(x[1] * y[2] + y[1] * x[2], x[2] * y[2])
    ELSE IF IsNaN(x) \/ IsNaN(y) \/ (~IsFinite(x) /\ ~IsFinite(y) /\ x # y) THEN NaN
    ELSE IF IsFinite(x) THEN y ELSE x

RNeg(x) == <<-x[1], x[2]>>

RSub(x, y) == RAdd(x, RNeg(y))

RMul(x, y) ==
    IF IsFinite(x) /\ IsFinite(y) THEN Rat(x[1] * y[1], x[2] * y[2])
    ELSE <<Sign(x[1]) * Sign(y[1]), 0>>

RDiv(x, y) ==
    IF IsFinite(x) /\ IsFinite(y) THEN Rat(x[1] * y[2], x[2] * y[1])
    ELSE IF IsFinite(y) /\ ~IsNaN(x) THEN <<x[1] * (IF y[1] < 0 THEN -1 ELSE 1), 0>>
    ELSE IF IsFinite(x) /\ ~IsNaN(y) THEN R(0)
    ELSE NaN

\* comparisons: every comparison with NaN is false
RLt(x, y) == ~IsNaN(x) /\ ~IsNaN(y) /\ x # y /\ x[1] * y[2] < y[1] * x[2]

RLe(x, y) == ~IsNaN(x) /\ ~IsNaN(y) /\ (x = y \/ x[1] * y[2] < y[1] * x[2])

RGt(x, y) == RLt(y, x)

RGe(x, y) == RLe(y, x)

REq(x, y) == ~IsNaN(x) /\ ~IsNaN(y) /\ x = y

RECURSIVE RSum(_)
RSum(s) == IF s = <<>> THEN R(0) ELSE RAdd(Head(s), RSum(Tail(s)))

\* the last n elements of s (all of s when it is shorter)
LastN(s, n) == IF Len(s) <= n THEN s ELSE SubSeq(s, Len(s) - n + 1, Len(s))

RMean(s) == RDiv(RSum(s), R(Len(s)))

\* s with x inserted before the first element greater than x (s sorted)
RECURSIVE Insert(_, _)
Insert(x, s) ==
    IF s = <<>> THEN <<x>>
    ELSE IF RLe(x, Head(s)) THEN <<x>> \o s
    ELSE <<Head(s)>> \o Insert(x, Tail(s))

RECURSIVE Sorted(_)
Sorted(s) == IF s = <<>> THEN <<>> ELSE Insert(Head(s), Sorted(Tail(s)))

RMedian(s) ==
    LET t == Sorted(s)
        n == Len(t)
    IN  IF n % 2 = 1 THEN t[(n + 1) \div 2]
        ELSE RDiv(RAdd(t[n \div 2], t[n \div 2 + 1]), R(2))

\* Python's None
None == <<>>

(***************************************************************************)
(* State.                                                                  *)
(***************************************************************************)
VARIABLES
    \* FilteredDonchianStrategy: constructor arguments, object fields and the
    \* position of backtest
    cfg, historical_data, df_signals, idx, pc, backtests,
    capital, positions, trade_log, equity_curve,
    \* SimpleMovingAverageProfitStrategy: constructor arguments, object fields,
    \* and the arguments, locals and position of backtest
    smp_cfg, smp_data, smp_signals, smp_idx, smp_pc,
    smp_capital, smp_position, smp_entry_price, smp_trade_log, smp_equity_curve,
    \* SMAStrategy: constructor arguments, and the argument, locals, position
    \* and outcome of backtest
    sma_cfg, sma_data, sma_signals, sma_idx, sma_pc,
    sma_position, sma_balance, sma_entry_price, sma_trades, sma_equity_curve,
    sma_result, sma_open,
    \* Backtester: constructor arguments, the position of run, what run
    \* returned or raised, and the records it logged
    bt_strategy, bt_data, bt_initial_capital, bt_pc, bt_results, bt_exception, bt_log,
    \* SimpleMovingAverageProfitStrategy1: constructor arguments, object fields,
    \* the direct calls of handle_order made, and the argument, local and
    \* position of backtest
    s1_cfg, s1_position, s1_entry_price, s1_trades, s1_calls,
    s1_data, s1_signals, s1_idx, s1_pc,
    \* DataFetcherFactory and BrokerFactory: the name (and, for the broker, the
    \* keyword arguments) each was called with, the object it returned and the exception it raised; the files of
    \* DataCache; the calls made on the fetcher, each with its cache and
    \* remote accesses and its outcome
    ft_client, ft_fetcher, ft_exception, ft_cache, ft_calls,
    br_name, br_kwargs, br_broker, br_exception,
    \* EMAcrossoverStrategy and DonchianATRStrategy: constructor arguments,
    \* the frame given to generate_signals and the frame it returned
    ema_cfg, ema_df, ema_signals, ema_pc,
    datr_cfg, datr_df, datr_signals, datr_pc

donVars == <<cfg, historical_data, df_signals, idx, pc, backtests,
             capital, positions, trade_log, equity_curve>>

smpVars == <<smp_cfg, smp_data, smp_signals, smp_idx, smp_pc,
             smp_capital, smp_position, smp_entry_price, smp_trade_log, smp_equity_curve>>

smaVars == <<sma_cfg, sma_data, sma_signals, sma_idx, sma_pc,
             sma_position, sma_balance, sma_entry_price, sma_trades, sma_equity_curve,
             sma_result, sma_open>>

btVars == <<bt_strategy, bt_data, bt_initial_capital, bt_pc, bt_results,
            bt_exception, bt_log>>

s1Vars == <<s1_cfg, s1_position, s1_entry_price, s1_trades, s1_calls,
            s1_data, s1_signals, s1_idx, s1_pc>>

ftVars == <<ft_client, ft_fetcher, ft_exception, ft_cache, ft_calls,
            br_name, br_kwargs, br_broker, br_exception>>

emaVars == <<ema_cfg, ema_df, ema_signals, ema_pc>>

datrVars == <<datr_cfg, datr_df, datr_signals, datr_pc>>

vars == <<donVars, smpVars, smaVars, btVars, s1Vars, ftVars, emaVars, datrVars>>

\* what a method of one object leaves alone: the other objects
notDon == <<smpVars, smaVars, btVars, s1Vars, ftVars, emaVars, datrVars>>

notSmp == <<donVars, smaVars, btVars, s1Vars, ftVars, emaVars, datrVars>>

notSma == <<donVars, smpVars, s1Vars, ftVars, emaVars, datrVars>>

notS1 == <<donVars, smpVars, smaVars, btVars, ftVars, emaVars, datrVars>>

notFt == <<donVars, smpVars, smaVars, btVars, s1Vars, emaVars, datrVars>>

notEma == <<donVars, smpVars, smaVars, btVars, s1Vars, ftVars, datrVars>>

notDatr == <<donVars, smpVars, smaVars, btVars, s1Vars, ftVars, emaVars>>

(***************************************************************************)
(* Inputs: OHLC bars with low <= close <= high, named by their row label   *)
(* 1..N (the index of the DataFrame, ascending).                           *)
(***************************************************************************)
\* the price levels of the bars
Prices == {1, 2, 3}

Bars == {b \in [high : Prices, low : Prices, close : Prices] :
            b.low <= b.close /\ b.close <= b.high}

RECURSIVE SeqsUpTo(_, _)
SeqsUpTo(S, n) ==
    IF n = 0 THEN {<<>>}
    ELSE LET shorter == SeqsUpTo(S, n - 1)
         IN  shorter \cup {Append(s, x) : s \in {t \in shorter : Len(t) = n - 1}, x \in S}

\* the constructor arguments the model runs FilteredDonchianStrategy with
DonchianConfigs ==
    { [initial_capital |-> R(1000), risk_per_trade |-> Rat(1, 10),
       stop_atr_mult |-> R(1), max_notional_per_position |-> Rat(1, 2),
       min_notional |-> R(10), donchian_entry |-> 1, donchian_exit |-> 1,
       atr_period |-> 2, atr_mult_entry |-> Rat(3, 2), sma_trend |-> 3, sma_mom |-> 2],
      [initial_capital |-> R(1000), risk_per_trade |-> Rat(1, 200),
       stop_atr_mult |-> R(2), max_notional_per_position |-> Rat(1, 10),
       min_notional |-> R(10), donchian_entry |-> 2, donchian_exit |-> 1,
       atr_period |-> 1, atr_mult_entry |-> R(1), sma_trend |-> 2, sma_mom |-> 1] }

(***************************************************************************)
(* FilteredDonchianStrategy.generate_signals                               *)
(***************************************************************************)
Column(df, name) == [t \in 1..Len(df) |-> R(df[t][name])]

\* series.shift(1).rolling(w).max() at row t: the maximum of the w rows
\* before t, NaN while fewer than w rows precede t
RECURSIVE SeqMax(_)
SeqMax(s) ==
    IF Len(s) = 1 THEN s[1]
    ELSE LET m == SeqMax(Tail(s)) IN IF RGt(Head(s), m) THEN Head(s) ELSE m

RECURSIVE SeqMin(_)
SeqMin(s) ==
    IF Len(s) = 1 THEN s[1]
    ELSE LET m == SeqMin(Tail(s)) IN IF RLt(Head(s), m) THEN Head(s) ELSE m

\* a channel high whose window takes in the row after t
ShiftRollingMax_Lookahead(series, w, t) ==
    IF t - w < 1 THEN NaN
    ELSE SeqMax(SubSeq(series, t - w, IF t < Len(series) THEN t + 1 ELSE t - 1))

\* a channel high that is defined as soon as one row precedes t
ShiftRollingMax_Partial(series, w, t) ==
    IF t = 1 THEN NaN ELSE SeqMax(LastN(SubSeq(series, 1, t - 1), w))

ShiftRollingMax(series, w, t) ==
    IF t - w < 1 THEN NaN ELSE SeqMax(SubSeq(series, t - w, t - 1))

\* a channel low that takes the highest of the rows before t
ShiftRollingMin_Highest(series, w, t) ==
    IF t - w < 1 THEN NaN ELSE SeqMax(SubSeq(series, t - w, t - 1))

ShiftRollingMin(series, w, t) ==
    IF t - w < 1 THEN NaN ELSE SeqMin(SubSeq(series, t - w, t - 1))

\* series.rolling(w, min_periods=1).mean() at row t
RollingMean(series, w, t) == RMean(LastN(SubSeq(series, 1, t), w))

\* series.rolling(w, min_periods=1).median() at row t
RollingMedian(series, w, t) == RMedian(LastN(SubSeq(series, 1, t), w))

\* the row-wise maximum of the three range columns, skipping the NaN of the
\* first row's shifted close
TrueRange(df, t) ==
    LET hl == R(df[t].high - df[t].low)
    IN  IF t = 1 THEN hl
        ELSE SeqMax(<<hl, R(Abs(df[t].high - df[t - 1].close)),
                          R(Abs(df[t].low - df[t - 1].close))>>)

\* the window of the ATR median (rolling(50, min_periods=1))
MedianWindow == 50

generate_signals(c, df) ==
    LET high  == Column(df, "high")
        low   == Column(df, "low")
        close == Column(df, "close")
        tr    == [t \in 1..Len(df) |-> TrueRange(df, t)]
        atr   == [t \in 1..Len(df) |-> RollingMean(tr, c.atr_period, t)]
    IN  [t \in 1..Len(df) |->
            LET donchian_high_entry == ShiftRollingMax(high, c.donchian_entry, t)
                donchian_low_exit   == ShiftRollingMin(low, c.donchian_exit, t)
                today_range  == RSub(high[t], low[t])
                atr_median50 == RollingMedian(atr, MedianWindow, t)
                vol_ok   == RGt(today_range, RMul(c.atr_mult_entry, atr_median50))
                trend_ok == RGt(close[t], RollingMean(close, c.sma_trend, t))
                mom_ok   == RGt(close[t], RollingMean(close, c.sma_mom, t))
            IN  [buy  |-> RGt(close[t], donchian_high_entry) /\ vol_ok /\ trend_ok /\ mom_ok,
                 sell |-> RLt(close[t], donchian_low_exit),
                 atr  |-> atr[t],
                 donchian_high_entry |-> donchian_high_entry,
                 donchian_low_exit   |-> donchian_low_exit]]

(***************************************************************************)
(* FilteredDonchianStrategy.handle_order                                   *)
(***************************************************************************)
\* a handle_order without its same-direction guard
HasOpen_NoGuard(ps, side) == FALSE

\* any(p["side"] == side and not p["closed"] for p in self.positions)
HasOpen(ps, side) == \E k \in 1..Len(ps) : ps[k].side = side /\ ~ps[k].closed

Signal(row) == IF row.buy THEN 1 ELSE IF row.sell THEN -1 ELSE 0

\* early returns that do not look at the ATR
OrderRejected_NoAtrCheck(ps, row) ==
    \/ Signal(row) = 0
    \/ HasOpen(ps, Signal(row))

\* the early returns of handle_order before sizing
OrderRejected(ps, row) ==
    \/ Signal(row) = 0
    \/ IsNaN(row.atr)
    \/ REq(row.atr, R(0))
    \/ HasOpen(ps, Signal(row))

StopDistance(c, row) == RMul(c.stop_atr_mult, row.atr)

\* a stop placed on the profit side of the entry
StopPrice_WrongSide(c, current_price, row) ==
    IF Signal(row) = 1 THEN RAdd(current_price, StopDistance(c, row))
    ELSE RSub(current_price, StopDistance(c, row))

StopPrice(c, current_price, row) ==
    IF Signal(row) = 1 THEN RSub(current_price, StopDistance(c, row))
    ELSE RAdd(current_price, StopDistance(c, row))

\* size = dollar_risk / stop_distance, before the notional cap
RiskSize(c, cap, row) == RDiv(RMul(cap, c.risk_per_trade), StopDistance(c, row))

\* a handle_order without its minimum-notional return
BelowMinNotional_Never(c, cap, current_price, row) == FALSE

BelowMinNotional(c, cap, current_price, row) ==
    RLt(RMul(RiskSize(c, cap, row), current_price), c.min_notional)

\* a sizing that never applies the notional cap
OrderSize_NoClamp(c, cap, current_price, row) == RiskSize(c, cap, row)

\* the size recorded: clamped when the notional exceeds the cap
OrderSize(c, cap, current_price, row) ==
    IF RGt(RMul(RiskSize(c, cap, row), current_price),
           RMul(cap, c.max_notional_per_position))
    THEN RDiv(RMul(cap, c.max_notional_per_position), current_price)
    ELSE RiskSize(c, cap, row)

\* the state of the object after handle_order(current_price, row), row
\* labelled t
handle_order(c, self, current_price, row, t) ==
    IF OrderRejected(self.positions, row) THEN self
    ELSE IF BelowMinNotional(c, self.capital, current_price, row) THEN self
    ELSE LET size == OrderSize(c, self.capital, current_price, row)
             stop_price == StopPrice(c, current_price, row)
         IN  [self EXCEPT
                !.positions = Append(@, [side |-> Signal(row),
                                         entry_price |-> current_price,
                                         stop_price |-> stop_price,
                                         size |-> size,
                                         closed |-> FALSE,
                                         entry_time |-> t]),
                !.trade_log = Append(@, [time |-> t,
                                         side |-> IF Signal(row) = 1 THEN "long" ELSE "short",
                                         price |-> current_price,
                                         size |-> size,
                                         stop_price |-> stop_price,
                                         capital |-> self.capital])]

(***************************************************************************)
(* FilteredDonchianStrategy.backtest                                       *)
(***************************************************************************)
\* a stop test that compares a long's stop with the bar's close
StopHit_OnClose(pos, bar) ==
    \/ pos.side = 1 /\ RLe(R(bar.close), pos.stop_price)
    \/ pos.side = -1 /\ RGe(R(bar.high), pos.stop_price)

\* the stop test of one open position against one bar
StopHit(pos, bar) ==
    \/ pos.side = 1 /\ RLe(R(bar.low), pos.stop_price)
    \/ pos.side = -1 /\ RGe(R(bar.high), pos.stop_price)

StopPnl(pos) ==
    IF pos.side = 1 THEN RMul(RSub(pos.stop_price, pos.entry_price), pos.size)
    ELSE RMul(RSub(pos.entry_price, pos.stop_price), pos.size)

\* a loop over self.positions that tests the stops of closed positions too
RECURSIVE CheckStopsFrom_Reclose(_, _, _)
CheckStopsFrom_Reclose(self, bar, k) ==
    IF k > Len(self.positions) THEN self
    ELSE LET pos == self.positions[k]
         IN  IF StopHit(pos, bar)
             THEN CheckStopsFrom_Reclose([self EXCEPT !.capital = RAdd(@, StopPnl(pos)),
                                                      !.positions[k].closed = TRUE],
                                         bar, k + 1)
             ELSE CheckStopsFrom_Reclose(self, bar, k + 1)

\* the loop over self.positions, from position k on
RECURSIVE CheckStopsFrom(_, _, _)
CheckStopsFrom(self, bar, k) ==
    IF k > Len(self.positions) THEN self
    ELSE LET pos == self.positions[k]
         IN  IF ~pos.closed /\ StopHit(pos, bar)
             THEN CheckStopsFrom([self EXCEPT !.capital = RAdd(@, StopPnl(pos)),
                                              !.positions[k].closed = TRUE],
                                 bar, k + 1)
             ELSE CheckStopsFrom(self, bar, k + 1)

UnrealizedPnl(p, price) ==
    IF p.side = 1 THEN RMul(RSub(price, p.entry_price), p.size)
    ELSE RMul(RSub(p.entry_price, price), p.size)

\* an unrealized P&L summed over closed positions too
Unrealized_WithClosed(ps, price) ==
    RSum([k \in 1..Len(ps) |-> UnrealizedPnl(ps[k], price)])

Unrealized(ps, price) ==
    RSum([k \in 1..Len(ps) |->
            IF ps[k].closed THEN R(0) ELSE UnrealizedPnl(ps[k], price)])

\* a loop body that handles the bar's signal before it checks the stops
LoopBody_EntryFirst == <<"order", "stops", "equity">>

\* the order of the three parts of the loop body
LoopBody == <<"stops", "order", "equity">>

\* where backtest stands after part k of the loop body on row idx
After(k) ==
    IF k < Len(LoopBody) THEN LoopBody[k + 1]
    ELSE IF idx < Len(historical_data) THEN LoopBody[1] ELSE "returned"

Part(name) == CHOOSE k \in 1..Len(LoopBody) : LoopBody[k] = name

Self == [capital |-> capital, positions |-> positions, trade_log |-> trade_log]

DonInit ==
    /\ cfg \in DonchianConfigs
    /\ historical_data \in SeqsUpTo(Bars, MaxBars)
    /\ df_signals = <<>>
    /\ idx = 0
    /\ pc = "constructed"
    /\ backtests = 0
    /\ capital = cfg.initial_capital
    /\ positions = <<>>
    /\ trade_log = <<>>
    /\ equity_curve = <<>>

\* bars with high >= low whose close may lie outside the range
WideBars == {b \in [high : Prices, low : Prices, close : Prices] : b.low <= b.high}

\* the first configuration with each pair of channel windows
WindowConfigs ==
    {[c EXCEPT !.donchian_entry = e, !.donchian_exit = x] :
        c \in {d \in DonchianConfigs : d.donchian_entry = 1}, e \in {1, 2}, x \in {1, 2}}

DonWideInit ==
    /\ cfg \in WindowConfigs
    /\ historical_data \in SeqsUpTo(WideBars, MaxBars)
    /\ df_signals = <<>>
    /\ idx = 0
    /\ pc = "constructed"
    /\ backtests = 0
    /\ capital = cfg.initial_capital
    /\ positions = <<>>
    /\ trade_log = <<>>
    /\ equity_curve = <<>>

\* the first configuration constructed with little capital: the cap on the
\* notional, capital * max_notional_per_position, is below min_notional
LowCapitalConfigs ==
    {[c EXCEPT !.initial_capital = R(18)] :
        c \in {d \in DonchianConfigs : d.donchian_entry = 1}}

DonLowInit ==
    /\ cfg \in LowCapitalConfigs
    /\ historical_data \in SeqsUpTo(Bars, MaxBars)
    /\ df_signals = <<>>
    /\ idx = 0
    /\ pc = "constructed"
    /\ backtests = 0
    /\ capital = cfg.initial_capital
    /\ positions = <<>>
    /\ trade_log = <<>>
    /\ equity_curve = <<>>

\* backtest is called: the signals are generated for the whole data
BacktestStart ==
    /\ pc = "constructed"
    /\ df_signals' = generate_signals(cfg, historical_data)
    /\ idx' = IF Len(historical_data) = 0 THEN 0 ELSE 1
    /\ pc' = IF Len(historical_data) = 0 THEN "returned" ELSE LoopBody[1]
    /\ backtests' = 1
    /\ UNCHANGED <<cfg, historical_data, capital, positions, trade_log, equity_curve>>
    /\ UNCHANGED notDon

\* backtest is called a second time on the same object with the same data:
\* the fields of the object are as the first call left them
BacktestAgain ==
    /\ pc = "returned"
    /\ backtests = 1
    /\ df_signals' = generate_signals(cfg, historical_data)
    /\ idx' = IF Len(historical_data) = 0 THEN 0 ELSE 1
    /\ pc' = IF Len(historical_data) = 0 THEN "returned" ELSE LoopBody[1]
    /\ backtests' = backtests + 1
    /\ UNCHANGED <<cfg, historical_data, capital, positions, trade_log, equity_curve>>
    /\ UNCHANGED notDon

\* "Check stops"
CheckStops ==
    /\ pc = "stops"
    /\ LET self == CheckStopsFrom(Self, historical_data[idx], 1)
       IN  /\ capital' = self.capital
           /\ positions' = self.positions
    /\ pc' = After(Part("stops"))
    /\ UNCHANGED <<cfg, backtests, historical_data, df_signals, idx, trade_log, equity_curve>>
    /\ UNCHANGED notDon

\* "Handle new signals"
HandleOrder ==
    /\ pc = "order"
    /\ LET self == handle_order(cfg, Self, R(historical_data[idx].close), df_signals[idx], idx)
       IN  /\ positions' = self.positions
           /\ trade_log' = self.trade_log
           /\ capital' = self.capital
    /\ pc' = After(Part("order"))
    /\ UNCHANGED <<cfg, backtests, historical_data, df_signals, idx, equity_curve>>
    /\ UNCHANGED notDon

\* an equity tracker that records a point only while a position is open
TrackEquity_OnlyInMarket ==
    /\ pc = "equity"
    /\ equity_curve' =
         IF \E k \in 1..Len(positions) : ~positions[k].closed
         THEN Append(equity_curve,
                [time |-> idx,
                 equity |-> RAdd(capital, Unrealized(positions, R(historical_data[idx].close)))])
         ELSE equity_curve
    /\ pc' = After(Part("equity"))
    /\ idx' = IF idx < Len(historical_data) THEN idx + 1 ELSE idx
    /\ UNCHANGED <<cfg, backtests, historical_data, df_signals, capital, positions, trade_log>>
    /\ UNCHANGED notDon

\* "Track equity", the last part of the loop body
TrackEquity ==
    /\ pc = "equity"
    /\ equity_curve' = Append(equity_curve,
            [time |-> idx,
             equity |-> RAdd(capital, Unrealized(positions, R(historical_data[idx].close)))])
    /\ pc' = After(Part("equity"))
    /\ idx' = IF idx < Len(historical_data) THEN idx + 1 ELSE idx
    /\ UNCHANGED <<cfg, backtests, historical_data, df_signals, capital, positions, trade_log>>
    /\ UNCHANGED notDon

\* handle_order called from outside backtest, as the public method it is:
\* the calls a driver makes
MaxOrders == 4

\* the ATR of the rows a driver passes: undefined, zero, small and large
OrderAtrs == {NaN, R(0), R(1), R(50)}

\* the rows a driver passes: no signal, a buy or a sell
OrderRows ==
    {[buy |-> FALSE, sell |-> FALSE, atr |-> R(1),
      donchian_high_entry |-> NaN, donchian_low_exit |-> NaN]}
    \cup {[buy |-> b, sell |-> ~b, atr |-> a,
           donchian_high_entry |-> NaN, donchian_low_exit |-> NaN] :
             b \in BOOLEAN, a \in OrderAtrs}

OrderPrices == {1, 3}

\* a constructed strategy whose backtest is not run
OrderInit ==
    /\ cfg \in DonchianConfigs
    /\ historical_data = <<>>
    /\ df_signals = <<>>
    /\ idx = 0
    /\ pc = "constructed"
    /\ backtests = 0
    /\ capital = cfg.initial_capital
    /\ positions = <<>>
    /\ trade_log = <<>>
    /\ equity_curve = <<>>

\* handle_order(current_price, row) is called; the bar and the row of the
\* call are kept, the row labelled by the number of the call
CallHandleOrder ==
    /\ pc = "constructed"
    /\ idx < MaxOrders
    /\ \E price \in OrderPrices, row \in OrderRows :
         LET self == handle_order(cfg, Self, R(price), row, idx + 1)
         IN  /\ positions' = self.positions
             /\ trade_log' = self.trade_log
             /\ capital' = self.capital
             /\ historical_data' = Append(historical_data,
                    [high |-> price, low |-> price, close |-> price])
             /\ df_signals' = Append(df_signals, row)
    /\ idx' = idx + 1
    /\ UNCHANGED <<cfg, pc, backtests, equity_curve>>
    /\ UNCHANGED notDon

\* no FilteredDonchianStrategy is under test
DonIdle ==
    /\ cfg \in {c \in DonchianConfigs : c.donchian_entry = 1}
    /\ historical_data = <<>>
    /\ df_signals = <<>>
    /\ idx = 0
    /\ pc = "unused"
    /\ backtests = 0
    /\ capital = cfg.initial_capital
    /\ positions = <<>>
    /\ trade_log = <<>>
    /\ equity_curve = <<>>

(***************************************************************************)
(* SimpleMovingAverageProfitStrategy                                       *)
(***************************************************************************)
\* the closes of the bars: a price or NaN (a missing value)
ProfitCloses == {R(8), R(9), R(10), R(11), R(12), NaN}

ProfitConfigs ==
    { [short_window |-> 2, long_window |-> 3, initial_capital |-> R(10000)],
      [short_window |-> 1, long_window |-> 2, initial_capital |-> R(10000)] }

\* series.rolling(w).mean() at row t: NaN until w rows are there, and NaN
\* when a row of the window is NaN
RollingMeanFull(series, w, t) ==
    IF t < w THEN NaN
    ELSE LET window == SubSeq(series, t - w + 1, t)
         IN  IF \E k \in 1..w : IsNaN(window[k]) THEN NaN ELSE RMean(window)

\* a shift by two rows
Shift1_Two(series, t) == IF t <= 2 THEN NaN ELSE series[t - 2]

\* series.shift(1) at row t
Shift1(series, t) == IF t = 1 THEN NaN ELSE series[t - 1]

smp_generate_signals(c, close) ==
    LET short_ma == [t \in 1..Len(close) |-> RollingMeanFull(close, c.short_window, t)]
        long_ma  == [t \in 1..Len(close) |-> RollingMeanFull(close, c.long_window, t)]
    IN  [t \in 1..Len(close) |->
            [timestamp |-> t,
             close |-> close[t],
             signal |->
                IF RLt(short_ma[t], long_ma[t])
                    /\ RGe(Shift1(short_ma, t), Shift1(long_ma, t)) THEN "sell"
                ELSE IF RGt(short_ma[t], long_ma[t])
                    /\ RLe(Shift1(short_ma, t), Shift1(long_ma, t)) THEN "buy"
                ELSE "None"]]

\* a sell that does not ask for a profit
InProfit_Always(current_price, entry_price) == TRUE

\* current_price > self.entry_price
InProfit(current_price, entry_price) == RGt(current_price, entry_price)

\* the fields of the object after handle_order(current_price, signal, timestamp)
smp_handle_order(self, current_price, signal, timestamp) ==
    IF signal = "buy" /\ self.position = 0 THEN
        [self EXCEPT !.position = 1,
                     !.entry_price = current_price,
                     !.capital = RSub(@, current_price),
                     !.trade_log = Append(@, [time |-> timestamp, side |-> "buy",
                                              price |-> current_price])]
    ELSE IF signal = "sell" /\ self.position > 0
                 /\ InProfit(current_price, self.entry_price) THEN
        [self EXCEPT !.position = 0,
                     !.capital = RAdd(@, current_price),
                     !.entry_price = R(0),
                     !.trade_log = Append(@, [time |-> timestamp, side |-> "sell",
                                              price |-> current_price])]
    ELSE self

\* "Skip rows with NaN close price"
SkipRow(row) == IsNaN(row.close)

SmpSelf == [capital |-> smp_capital, position |-> smp_position,
            entry_price |-> smp_entry_price, trade_log |-> smp_trade_log]

SmpInit ==
    /\ smp_cfg \in ProfitConfigs
    /\ smp_data \in SeqsUpTo(ProfitCloses, MaxProfitBars)
    /\ smp_signals = <<>>
    /\ smp_idx = 0
    /\ smp_pc = "constructed"
    /\ smp_capital = smp_cfg.initial_capital
    /\ smp_position = 0
    /\ smp_entry_price = R(0)
    /\ smp_trade_log = <<>>
    /\ smp_equity_curve = <<>>

\* the configurations constructed with an initial capital below the prices
LowProfitConfigs == {[c EXCEPT !.initial_capital = R(9)] : c \in ProfitConfigs}

SmpLowInit ==
    /\ smp_cfg \in LowProfitConfigs
    /\ smp_data \in SeqsUpTo(ProfitCloses, MaxProfitBars)
    /\ smp_signals = <<>>
    /\ smp_idx = 0
    /\ smp_pc = "constructed"
    /\ smp_capital = smp_cfg.initial_capital
    /\ smp_position = 0
    /\ smp_entry_price = R(0)
    /\ smp_trade_log = <<>>
    /\ smp_equity_curve = <<>>

\* backtest is called: signals for the whole data, an empty equity curve
SmpBacktestStart ==
    /\ smp_pc = "constructed"
    /\ smp_signals' = smp_generate_signals(smp_cfg, smp_data)
    /\ smp_equity_curve' = <<>>
    /\ smp_idx' = IF Len(smp_data) = 0 THEN 0 ELSE 1
    /\ smp_pc' = IF Len(smp_data) = 0 THEN "returned" ELSE "loop"
    /\ UNCHANGED <<smp_cfg, smp_data, smp_capital, smp_position, smp_entry_price,
                   smp_trade_log>>
    /\ UNCHANGED notSmp

\* one iteration of the loop over the rows of signals
SmpRow ==
    /\ smp_pc = "loop"
    /\ LET row == smp_signals[smp_idx]
       IN  IF SkipRow(row) THEN
               UNCHANGED <<smp_capital, smp_position, smp_entry_price, smp_trade_log,
                           smp_equity_curve>>
           ELSE LET self == smp_handle_order(SmpSelf, row.close, row.signal, row.timestamp)
                IN  /\ smp_capital' = self.capital
                    /\ smp_position' = self.position
                    /\ smp_entry_price' = self.entry_price
                    /\ smp_trade_log' = self.trade_log
                    /\ smp_equity_curve' = Append(smp_equity_curve,
                          [time |-> row.timestamp,
                           equity |-> RAdd(self.capital, RMul(R(self.position), row.close))])
    /\ smp_idx' = IF smp_idx < Len(smp_data) THEN smp_idx + 1 ELSE smp_idx
    /\ smp_pc' = IF smp_idx < Len(smp_data) THEN "loop" ELSE "returned"
    /\ UNCHANGED <<smp_cfg, smp_data, smp_signals>>
    /\ UNCHANGED notSmp

\* no SimpleMovingAverageProfitStrategy is under test
SmpIdle ==
    /\ smp_cfg \in {c \in ProfitConfigs : c.short_window = 2}
    /\ smp_data = <<>>
    /\ smp_signals = <<>>
    /\ smp_idx = 0
    /\ smp_pc = "unused"
    /\ smp_capital = smp_cfg.initial_capital
    /\ smp_position = 0
    /\ smp_entry_price = R(0)
    /\ smp_trade_log = <<>>
    /\ smp_equity_curve = <<>>

(***************************************************************************)
(* SimpleMovingAverageProfitStrategy1                                      *)
(***************************************************************************)
\* the bars of one backtest, and the direct calls of handle_order
MaxS1Bars == 3

MaxS1Calls == 2

S1Closes == {R(8), R(10), R(11), R(12)}

S1Configs ==
    { [short_window |-> 1, long_window |-> 2],
      [short_window |-> 2, long_window |-> 3] }

\* the truth value of self.entry_price: None and 0.0 are false
Truthy(x) == x # None /\ x # R(0)

\* the rows of generate_signals(historical_data), the object's entry price
\* being entry_price when it is called
s1_generate_signals(c, entry_price, close) ==
    LET short_ma == [t \in 1..Len(close) |-> RollingMeanFull(close, c.short_window, t)]
        long_ma  == [t \in 1..Len(close) |-> RollingMeanFull(close, c.long_window, t)]
    IN  [t \in 1..Len(close) |->
            LET profit_check == IF Truthy(entry_price) THEN RGt(close[t], entry_price)
                                ELSE FALSE
            IN  [timestamp |-> t,
                 close |-> close[t],
                 signal |->
                    IF RLt(short_ma[t], long_ma[t]) /\ profit_check THEN "sell"
                    ELSE IF RGt(short_ma[t], long_ma[t])
                        /\ RLe(Shift1(short_ma, t), Shift1(long_ma, t)) THEN "buy"
                    ELSE "None"]]

\* the fields of the object after handle_order(current_price, signal)
s1_handle_order(self, current_price, signal) ==
    IF signal = "buy" /\ self.position = "None" THEN
        [self EXCEPT !.position = "long",
                     !.entry_price = current_price,
                     !.trades = Append(@, [type |-> "buy", price |-> current_price])]
    ELSE IF signal = "sell" /\ self.position = "long"
                 /\ InProfit(current_price, self.entry_price) THEN
        [self EXCEPT !.position = "None",
                     !.trades = Append(@, [type |-> "sell", price |-> current_price]),
                     !.entry_price = None]
    ELSE self

S1Self == [position |-> s1_position, entry_price |-> s1_entry_price, trades |-> s1_trades]

S1Init ==
    /\ s1_cfg \in S1Configs
    /\ s1_position = "None"
    /\ s1_entry_price = None
    /\ s1_trades = <<>>
    /\ s1_calls = 0
    /\ s1_data \in SeqsUpTo(S1Closes, MaxS1Bars)
    /\ s1_signals = <<>>
    /\ s1_idx = 0
    /\ s1_pc = "constructed"

\* the bars of a backtest on an object nothing else has been called on
MaxFreshBars == 5

S1FreshInit ==
    /\ s1_cfg \in S1Configs
    /\ s1_position = "None"
    /\ s1_entry_price = None
    /\ s1_trades = <<>>
    /\ s1_calls = 0
    /\ s1_data \in SeqsUpTo(S1Closes, MaxFreshBars)
    /\ s1_signals = <<>>
    /\ s1_idx = 0
    /\ s1_pc = "constructed"

\* handle_order(current_price, signal) called from outside backtest; the row
\* of the call is kept
S1CallHandleOrder ==
    /\ s1_pc = "constructed"
    /\ s1_calls < MaxS1Calls
    /\ \E current_price \in S1Closes, signal \in {"buy", "sell", "None"} :
         LET self == s1_handle_order(S1Self, current_price, signal)
         IN  /\ s1_position' = self.position
             /\ s1_entry_price' = self.entry_price
             /\ s1_trades' = self.trades
             /\ s1_signals' = <<[timestamp |-> 0, close |-> current_price,
                                 signal |-> signal]>>
    /\ s1_calls' = s1_calls + 1
    /\ UNCHANGED <<s1_cfg, s1_data, s1_idx, s1_pc>>
    /\ UNCHANGED notS1

\* backtest is called: the signals for the whole data
S1BacktestStart ==
    /\ s1_pc = "constructed"
    /\ s1_signals' = s1_generate_signals(s1_cfg, s1_entry_price, s1_data)
    /\ s1_idx' = IF Len(s1_data) = 0 THEN 0 ELSE 1
    /\ s1_pc' = IF Len(s1_data) = 0 THEN "returned" ELSE "loop"
    /\ UNCHANGED <<s1_cfg, s1_position, s1_entry_price, s1_trades, s1_calls, s1_data>>
    /\ UNCHANGED notS1

\* one iteration of the loop over the rows of signals
S1Row ==
    /\ s1_pc = "loop"
    /\ LET row == s1_signals[s1_idx]
           self == s1_handle_order(S1Self, row.close, row.signal)
       IN  /\ s1_position' = self.position
           /\ s1_entry_price' = self.entry_price
           /\ s1_trades' = self.trades
    /\ s1_idx' = IF s1_idx < Len(s1_data) THEN s1_idx + 1 ELSE s1_idx
    /\ s1_pc' = IF s1_idx < Len(s1_data) THEN "loop" ELSE "returned"
    /\ UNCHANGED <<s1_cfg, s1_calls, s1_data, s1_signals>>
    /\ UNCHANGED notS1

\* no SimpleMovingAverageProfitStrategy1 is under test
S1Idle ==
    /\ s1_cfg \in {c \in S1Configs : c.short_window = 1}
    /\ s1_position = "None"
    /\ s1_entry_price = None
    /\ s1_trades = <<>>
    /\ s1_calls = 0
    /\ s1_data = <<>>
    /\ s1_signals = <<>>
    /\ s1_idx = 0
    /\ s1_pc = "unused"

(***************************************************************************)
(* SMAStrategy                                                             *)
(***************************************************************************)
\* a float the model does not compute (an irrational power or square root)
Irrational == <<0, -1>>

\* sma_period, balance_investment_pct / 100 and profit_threshold; the
\* constructor stores any percentage it is given, 0 included
SmaConfigs ==
    { [sma_period |-> 2, balance_investment_pct |-> Rat(80, 100), profit_threshold |-> Rat(1, 5)],
      [sma_period |-> 2, balance_investment_pct |-> Rat(80, 100), profit_threshold |-> R(-1)],
      [sma_period |-> 2, balance_investment_pct |-> Rat(100, 100), profit_threshold |-> Rat(1, 5)],
      [sma_period |-> 2, balance_investment_pct |-> Rat(0, 100), profit_threshold |-> Rat(1, 5)] }

\* the cells an open column is read with: text that is a number, and text
\* that is none
OpenCells == {"1", "abc"}

\* pd.to_numeric(cell, errors='coerce')
ToNumeric(cell) ==
    CASE cell = "1" -> R(1)
      [] cell = "2" -> R(2)
      [] cell = "3" -> R(3)
      [] OTHER -> NaN

\* an open column of n numeric cells
NumericOpen(n) == [present |-> TRUE, cells |-> [t \in 1..n |-> "1"]]

\* col in data.columns fails for a required column
MissingColumn(open) == ~open.present

\* the rows of generate_signals(data): the data with its price columns
\* coerced and its signal column; open is the open column of the data
sma_generate_signals(c, data, open) ==
    LET close == Column(data, "close")
        low   == Column(data, "low")
        high  == Column(data, "high")
        SMA   == [t \in 1..Len(data) |-> RollingMean(close, c.sma_period, t)]
    IN  [t \in 1..Len(data) |->
            LET price_above_sma     == RGt(low[t], SMA[t])
                price_was_below_sma == RLt(Shift1(low, t), Shift1(SMA, t))
                price_below_sma     == RLt(high[t], SMA[t])
            IN  [timestamp |-> t,
                 open |-> ToNumeric(open.cells[t]),
                 close |-> close[t],
                 signal |-> IF price_above_sma /\ price_was_below_sma THEN 1
                            ELSE IF price_below_sma THEN -1
                            ELSE 0]]

\* the starting balance of backtest and the initial capital of the metrics
StartingBalance == 10000

\* days per year and per month in _calculate_metrics
DaysPerYear == Rat(36525, 100)

DaysPerMonth == Rat(3044, 100)

\* equity.pct_change().dropna()
PctChange(equity) ==
    [k \in 1..Len(equity) |->
        IF k = 1 THEN NaN ELSE RSub(RDiv(equity[k], equity[k - 1]), R(1))]

RECURSIVE DropNa(_)
DropNa(s) ==
    IF s = <<>> THEN <<>>
    ELSE IF IsNaN(Head(s)) THEN DropNa(Tail(s))
    ELSE <<Head(s)>> \o DropNa(Tail(s))

\* the minimum of a series, NaN skipped; NaN when nothing is left
SeriesMin(s) == IF DropNa(s) = <<>> THEN NaN ELSE SeqMin(DropNa(s))

\* trades_df['balance'].expanding(min_periods=1).max() at row k
ExpandingMax(balance, k) == SeqMax(SubSeq(balance, 1, k))

MaxDrawdown(balance) ==
    SeriesMin([k \in 1..Len(balance) |->
        RDiv(RSub(balance[k], ExpandingMax(balance, k)), ExpandingMax(balance, k))])

\* an empty-ledger record whose Sharpe ratio is computed before the guard
ZeroTradeMetrics_SharpeFirst(daily_returns) ==
    [final_capital |-> R(StartingBalance), cagr |-> R(0),
     sharpe |-> IF Len(daily_returns) > 0 THEN Irrational ELSE R(0),
     max_drawdown |-> R(0), avg_trades_per_day |-> R(0), avg_trades_per_month |-> R(0)]

\* the record returned for an empty ledger
ZeroTradeMetrics(daily_returns) ==
    [final_capital |-> R(StartingBalance), cagr |-> R(0), sharpe |-> R(0),
     max_drawdown |-> R(0), avg_trades_per_day |-> R(0), avg_trades_per_month |-> R(0)]

\* a final capital read from the first row of the ledger
FinalCapital_FirstRow(balance) == balance[1]

\* trades_df['balance'].iloc[-1]
FinalCapital(balance) == balance[Len(balance)]

calculate_metrics(trades, daily_returns) ==
    IF Len(trades) = 0 THEN ZeroTradeMetrics(daily_returns)
    ELSE LET balance == [k \in 1..Len(trades) |-> trades[k].balance]
             total_days == trades[Len(trades)].timestamp - trades[1].timestamp
             years == RDiv(R(total_days), DaysPerYear)
             total_months == RDiv(R(total_days), DaysPerMonth)
         IN  [final_capital |-> FinalCapital(balance),
              cagr |-> IF RGt(years, R(0)) THEN Irrational ELSE R(0),
              sharpe |-> IF Len(daily_returns) > 0 THEN Irrational ELSE R(0),
              max_drawdown |-> MaxDrawdown(balance),
              avg_trades_per_day |->
                 IF total_days > 0 THEN RDiv(R(Len(trades)), R(total_days)) ELSE R(0),
              avg_trades_per_month |->
                 IF RGt(total_months, R(0)) THEN RDiv(R(Len(trades)), total_months) ELSE R(0)]

SmaInit ==
    /\ sma_cfg \in SmaConfigs
    /\ sma_data \in SeqsUpTo(Bars, MaxSmaBars)
    /\ sma_signals = <<>>
    /\ sma_idx = 0
    /\ sma_pc = "constructed"
    /\ sma_position = R(0)
    /\ sma_balance = R(StartingBalance)
    /\ sma_entry_price = None
    /\ sma_trades = <<>>
    /\ sma_equity_curve = <<>>
    /\ sma_result = None
    /\ sma_open = NumericOpen(Len(sma_data))

\* the bars of a frame whose open column is read as text
MaxRawBars == 2

\* the open columns a frame of n rows can have: missing, or n cells
RawOpens(n) ==
    {[present |-> FALSE, cells |-> <<>>]}
    \cup {[present |-> TRUE, cells |-> cells] :
             cells \in {s \in SeqsUpTo(OpenCells, n) : Len(s) = n}}

\* a constructed SMAStrategy and a frame as it was read from text
SmaRawInit ==
    /\ sma_cfg \in SmaConfigs
    /\ sma_data \in SeqsUpTo(Bars, MaxRawBars)
    /\ sma_open \in RawOpens(Len(sma_data))
    /\ sma_signals = <<>>
    /\ sma_idx = 0
    /\ sma_pc = "constructed"
    /\ sma_position = R(0)
    /\ sma_balance = R(StartingBalance)
    /\ sma_entry_price = None
    /\ sma_trades = <<>>
    /\ sma_equity_curve = <<>>
    /\ sma_result = None

\* backtest(data) is called: the data is indexed by its (ascending)
\* timestamps, the signals are generated and the tracking variables initialised
\* a buy that pays a fee of one percent on top of its cost
BuyCost_WithFee(volume, current_price) ==
    RMul(Rat(101, 100), RMul(volume, current_price))

\* cost = volume * current_price
BuyCost(volume, current_price) == RMul(volume, current_price)

SmaBacktestCall(data) ==
    /\ sma_pc = "constructed"
    /\ sma_data' = data
    /\ IF MissingColumn(sma_open) THEN
           \* generate_signals raises ValueError before any local is set
           /\ sma_pc' = "raised"
           /\ sma_result' = "ValueError"
           /\ UNCHANGED <<sma_signals, sma_position, sma_balance, sma_entry_price,
                          sma_trades, sma_equity_curve, sma_idx>>
       ELSE
           /\ sma_signals' = sma_generate_signals(sma_cfg, data, sma_open)
           /\ sma_position' = R(0)
           /\ sma_balance' = R(StartingBalance)
           /\ sma_entry_price' = None
           /\ sma_trades' = <<>>
           /\ sma_equity_curve' = <<>>
           /\ sma_idx' = IF Len(data) = 0 THEN 0 ELSE 1
           /\ sma_pc' = IF Len(data) = 0 THEN "finish" ELSE "loop"
           /\ UNCHANGED sma_result
    /\ UNCHANGED <<sma_cfg, sma_open>>

\* backtest(sma_data) called directly
SmaBacktestStart ==
    /\ SmaBacktestCall(sma_data)
    /\ UNCHANGED <<notSma, btVars>>

\* one iteration of the loop over the rows of signals
SmaRow ==
    /\ sma_pc = "loop"
    /\ LET row == sma_signals[sma_idx]
           current_price == row.close
           current_equity ==
               IF RGt(sma_position, R(0))
               THEN RAdd(sma_balance, RMul(sma_position, current_price))
               ELSE sma_balance
       IN  /\ sma_equity_curve' = Append(sma_equity_curve,
                  [timestamp |-> row.timestamp, equity |-> current_equity])
           /\ IF row.signal = 1 /\ sma_position = R(0) THEN
                  LET volume == RDiv(RMul(sma_balance, sma_cfg.balance_investment_pct),
                                     current_price)
                      cost == BuyCost(volume, current_price)
                  IN  /\ sma_position' = volume
                      /\ sma_entry_price' = current_price
                      /\ sma_balance' = RSub(sma_balance, cost)
                      /\ sma_trades' = Append(sma_trades,
                            [timestamp |-> row.timestamp, type |-> "buy",
                             price |-> current_price, volume |-> volume,
                             balance |-> RSub(sma_balance, cost)])
              ELSE IF RGt(sma_position, R(0)) /\ row.signal = -1
                        /\ RGe(RDiv(RSub(current_price, sma_entry_price), sma_entry_price),
                               sma_cfg.profit_threshold) THEN
                  LET revenue == RMul(sma_position, current_price)
                  IN  /\ sma_balance' = RAdd(sma_balance, revenue)
                      /\ sma_trades' = Append(sma_trades,
                            [timestamp |-> row.timestamp, type |-> "sell",
                             price |-> current_price, volume |-> sma_position,
                             balance |-> RAdd(sma_balance, revenue)])
                      /\ sma_position' = R(0)
                      /\ sma_entry_price' = None
              ELSE UNCHANGED <<sma_position, sma_balance, sma_entry_price, sma_trades>>
    /\ sma_idx' = IF sma_idx < Len(sma_data) THEN sma_idx + 1 ELSE sma_idx
    /\ sma_pc' = IF sma_idx < Len(sma_data) THEN "loop" ELSE "finish"
    /\ UNCHANGED <<sma_cfg, sma_data, sma_signals, sma_result, sma_open>>
    /\ UNCHANGED <<notSma, btVars>>

\* after the loop: the DataFrames are built and the metrics computed;
\* pd.DataFrame([]) has no column, so equity_df['equity'] raises KeyError
\* when the equity curve is empty
SmaFinish ==
    /\ sma_pc = "finish"
    /\ IF Len(sma_equity_curve) = 0 THEN
           /\ sma_pc' = "raised"
           /\ sma_result' = "KeyError"
       ELSE
           /\ sma_pc' = "returned"
           /\ sma_result' = calculate_metrics(sma_trades,
                  DropNa(PctChange([k \in 1..Len(sma_equity_curve) |->
                                        sma_equity_curve[k].equity])))
    /\ UNCHANGED <<sma_cfg, sma_data, sma_signals, sma_idx, sma_position, sma_balance,
                   sma_entry_price, sma_trades, sma_equity_curve, sma_open>>
    /\ UNCHANGED <<notSma, btVars>>

\* no SMAStrategy is under test
SmaIdle ==
    /\ sma_cfg \in {c \in SmaConfigs : c.profit_threshold = R(-1)}
    /\ sma_data = <<>>
    /\ sma_signals = <<>>
    /\ sma_idx = 0
    /\ sma_pc = "unused"
    /\ sma_position = R(0)
    /\ sma_balance = R(StartingBalance)
    /\ sma_entry_price = None
    /\ sma_trades = <<>>
    /\ sma_equity_curve = <<>>
    /\ sma_result = None
    /\ sma_open = NumericOpen(0)

(***************************************************************************)
(* Backtester                                                              *)
(***************************************************************************)
\* the bars a Backtester is run on
MaxRunBars == 3

\* the strategy objects handed to the Backtester: an SMAStrategy, and an
\* object that has generate_signals and handle_order but no backtest
BtStrategies == {"SMAStrategy", "SignalsOnly"}

\* the initial_capital arguments the model constructs the Backtester with
BtCapitals == {R(10000), R(5000)}

\* hasattr(self.strategy, "backtest")
HasBacktest(strategy) == strategy = "SMAStrategy"

\* what _generic_backtest returns: its body is pass
generic_backtest == None

BtInfo == [level |-> "info", message |-> <<"Backtest completed successfully.">>]

BtError(e) == [level |-> "error", message |-> <<"Backtest failed: ", e>>]

\* Backtester(strategy, data, initial_capital), the strategy constructed
\* before it
BtInit ==
    /\ bt_strategy \in BtStrategies
    /\ bt_data \in SeqsUpTo(Bars, MaxRunBars)
    /\ bt_initial_capital \in BtCapitals
    /\ bt_pc = "constructed"
    /\ bt_results = None
    /\ bt_exception = None
    /\ bt_log = <<>>
    /\ sma_cfg \in IF HasBacktest(bt_strategy) THEN SmaConfigs
                   ELSE {c \in SmaConfigs : c.profit_threshold = R(-1)}
    /\ sma_data = <<>>
    /\ sma_signals = <<>>
    /\ sma_idx = 0
    /\ sma_pc = IF HasBacktest(bt_strategy) THEN "constructed" ELSE "unused"
    /\ sma_position = R(0)
    /\ sma_balance = R(StartingBalance)
    /\ sma_entry_price = None
    /\ sma_trades = <<>>
    /\ sma_equity_curve = <<>>
    /\ sma_result = None
    /\ sma_open \in {NumericOpen(Len(bt_data)), [present |-> FALSE, cells |-> <<>>]}

\* run, the strategy has a backtest: self.strategy.backtest(self.data) is
\* called
RunDelegate ==
    /\ bt_pc = "constructed"
    /\ HasBacktest(bt_strategy)
    /\ SmaBacktestCall(bt_data)
    /\ bt_pc' = "delegated"
    /\ UNCHANGED <<bt_strategy, bt_data, bt_initial_capital, bt_results, bt_exception,
                   bt_log>>
    /\ UNCHANGED notSma

\* run, the strategy has no backtest: _generic_backtest() is called, returns,
\* and run logs and returns its value
RunGeneric ==
    /\ bt_pc = "constructed"
    /\ ~HasBacktest(bt_strategy)
    /\ bt_results' = generic_backtest
    /\ bt_log' = Append(bt_log, BtInfo)
    /\ bt_pc' = "returned"
    /\ UNCHANGED <<bt_strategy, bt_data, bt_initial_capital, bt_exception>>
    /\ UNCHANGED <<notSma, smaVars>>

\* an except clause that logs the error and returns None
RunExcept_Swallow ==
    /\ bt_pc = "delegated"
    /\ sma_pc = "raised"
    /\ bt_log' = Append(bt_log, BtError(sma_result))
    /\ bt_results' = None
    /\ bt_pc' = "returned"
    /\ UNCHANGED <<bt_strategy, bt_data, bt_initial_capital, bt_exception>>
    /\ UNCHANGED <<notSma, smaVars>>

\* the except clause: the strategy's backtest raised; the error is logged and
\* the exception raised again
RunExcept ==
    /\ bt_pc = "delegated"
    /\ sma_pc = "raised"
    /\ bt_log' = Append(bt_log, BtError(sma_result))
    /\ bt_exception' = sma_result
    /\ bt_pc' = "raised"
    /\ UNCHANGED <<bt_strategy, bt_data, bt_initial_capital, bt_results>>
    /\ UNCHANGED <<notSma, smaVars>>

\* the strategy's backtest returned: run logs and returns its results
RunReturn ==
    /\ bt_pc = "delegated"
    /\ sma_pc = "returned"
    /\ bt_results' = sma_result
    /\ bt_log' = Append(bt_log, BtInfo)
    /\ bt_pc' = "returned"
    /\ UNCHANGED <<bt_strategy, bt_data, bt_initial_capital, bt_exception>>
    /\ UNCHANGED <<notSma, smaVars>>

\* no Backtester is under test
BtIdle ==
    /\ bt_strategy = "SMAStrategy"
    /\ bt_data = <<>>
    /\ bt_initial_capital = R(10000)
    /\ bt_pc = "unused"
    /\ bt_results = None
    /\ bt_exception = None
    /\ bt_log = <<>>

(***************************************************************************)
(* DataFetcherFactory, BrokerFactory, DataCache and the fetchers            *)
(***************************************************************************)
MaxFetches == 2

\* names given to the factories: the known ones and one unknown each
DataClients == {"alpaca", "kraken", "polygon", "binance"}

BrokerNames == {"alpaca", "kraken", "ibkr"}

\* the value of a CryptoTicker, or a stock symbol
CryptoSymbols == {"BTC/USD", "ETH/USD"}

StockSymbols == {"AAPL"}

\* the timeframe keyword: a member of DataTimeFrame, a value that is not
\* one ("week"), or no keyword at all
Timeframes == {"day", "hour", "week", "absent"}

\* datetimes: a calendar day and an hour of that day
Starts == {[date |-> 1, hour |-> 0], [date |-> 1, hour |-> 12]}

Ends == {[date |-> 2, hour |-> 0], [date |-> 3, hour |-> 0]}

Requests(symbols) ==
    [ticker : symbols, start_date : Starts, end_date : Ends, timeframe : Timeframes]

\* what the remote client does when asked: answer with bars, or raise
RemoteOutcomes == {"bars", "raise"}

Return(v) == [raised |-> "None", value |-> <<v>>]

Raise(e) == [raised |-> e, value |-> <<>>]

\* AlpacaFetcher leaves the abstract get_historical_data undefined, so
\* AlpacaFetcher() raises TypeError before __init__ runs; kraken_fetcher is
\* not among the modules, so its import raises
get_fetcher(client) ==
    CASE client = "alpaca" -> Raise("TypeError")
      [] client = "kraken" -> Raise("ModuleNotFoundError")
      [] client = "polygon" -> Return("PolygonFetcher")
      [] OTHER -> Raise("ValueError")

\* the keyword arguments given to get_broker, by their names: none, one
\* credential, both credentials
BrokerKwargs == {{}, {"api_key"}, {"api_key", "api_secret"}}

\* AlpacaBroker.__init__(api_key, api_secret, base_url=...) raises TypeError
\* when a credential is missing or a keyword is not one of its parameters;
\* KrakenBroker.__init__(**kwargs) takes any keywords
get_broker(name, kwargs) ==
    CASE name = "alpaca" ->
            IF {"api_key", "api_secret"} \subseteq kwargs
                /\ kwargs \subseteq {"api_key", "api_secret", "base_url"}
            THEN Return("AlpacaBroker") ELSE Raise("TypeError")
      [] name = "kraken" -> Return("KrakenBroker")
      [] OTHER -> Raise("ValueError")

\* kwargs.get("timeframe", default)
KwargsTimeframe(request, default) ==
    IF request.timeframe = "absent" THEN default ELSE request.timeframe

get_alpaca_time_frame(timeframe) ==
    CASE timeframe = "day" -> Return("1Day")
      [] timeframe = "hour" -> Return("1Hour")
      [] timeframe = "min" -> Return("1Min")
      [] OTHER -> Raise("ValueError")

\* str() of the timeframe PolygonFetcher was given: a DataTimeFrame member
\* prints with its class name, the default 'day' and other strings as is
PolygonTimeframeStr(request) ==
    CASE request.timeframe = "day" -> "DataTimeFrame.Day"
      [] request.timeframe = "hour" -> "DataTimeFrame.Hour"
      [] request.timeframe = "min" -> "DataTimeFrame.Minute"
      [] request.timeframe = "absent" -> "day"
      [] OTHER -> request.timeframe

\* strftime("%Y-%m-%d"): the calendar day, without the hour
Strftime(t) == t.date

\* the file name: md5 (taken as collision-free) of the four parts joined
\* with "_"; none of the parts used here holds a "_"
cache_key(symbol, start, end, timeframe) == <<symbol, start, end, timeframe>>

\* DataCache.get: the frame read back from the file, or None
DataCache_get(cache, key) ==
    IF \E f \in cache : f.key = key
    THEN <<[bars_of |-> (CHOOSE f \in cache : f.key = key).bars_of,
            timestamp |-> "text"]>>
    ELSE None

\* a set that writes no file
DataCache_set_Nothing(cache, key, df) == cache

\* DataCache.set: to_csv writes the file, replacing one of the same name
DataCache_set(cache, key, df) ==
    {f \in cache : f.key # key} \cup {[key |-> key, bars_of |-> df.bars_of]}

\* the frame the remote client answers with, after reset_index and
\* tz_convert: the bars of the request, with timezone-aware timestamps
RemoteFrame(request) == [bars_of |-> <<request>>, timestamp |-> "US/Pacific"]

\* DataFrame()
EmptyFrame == [bars_of |-> <<>>, timestamp |-> "none"]

\* get_historical_crypto_data and get_historical_stocks_data share their
\* body: the outcome, the cache and remote accesses in order, the cache after
alpaca_fetch(request, remote, cache) ==
    LET timeframe == get_alpaca_time_frame(KwargsTimeframe(request, "day"))
        key == cache_key(request.ticker, Strftime(request.start_date),
                         Strftime(request.end_date), timeframe.value[1])
        cached_data == DataCache_get(cache, key)
    IN  IF timeframe.raised # "None"
        THEN [raised |-> timeframe.raised, returned |-> <<>>,
              events |-> <<>>, cache |-> cache]
        ELSE IF cached_data # None
        THEN [raised |-> "None", returned |-> cached_data,
              events |-> <<<<"cache_get", key>>>>, cache |-> cache]
        ELSE IF remote = "raise"
        THEN [raised |-> "APIError", returned |-> <<>>,
              events |-> <<<<"cache_get", key>>, <<"remote", request>>>>,
              cache |-> cache]
        ELSE [raised |-> "None", returned |-> <<RemoteFrame(request)>>,
              events |-> <<<<"cache_get", key>>, <<"remote", request>>,
                           <<"cache_set", key>>>>,
              cache |-> DataCache_set(cache, key, RemoteFrame(request))]

\* PolygonFetcher.get_historical_data: the remote request is a placeholder
\* that yields an empty frame, which is not cached
polygon_fetch(request, cache) ==
    LET key == cache_key(request.ticker, Strftime(request.start_date),
                         Strftime(request.end_date), PolygonTimeframeStr(request))
        cached_data == DataCache_get(cache, key)
    IN  IF cached_data # None
        THEN [raised |-> "None", returned |-> cached_data,
              events |-> <<<<"cache_get", key>>>>, cache |-> cache]
        ELSE [raised |-> "None", returned |-> <<EmptyFrame>>,
              events |-> <<<<"cache_get", key>>>>, cache |-> cache]

\* files a previous process may have left in datasets/cache
CachedBefore ==
    {{}, {[key |-> cache_key("BTC/USD", 1, 3, "1Day"),
           bars_of |-> <<[ticker |-> "BTC/USD", start_date |-> [date |-> 1, hour |-> 0],
                          end_date |-> [date |-> 3, hour |-> 0], timeframe |-> "day"]>>]}}

FtInit ==
    /\ ft_client = "None"
    /\ ft_fetcher = "None"
    /\ ft_exception = "None"
    /\ ft_cache \in CachedBefore
    /\ ft_calls = <<>>
    /\ br_name = "None"
    /\ br_kwargs = {}
    /\ br_broker = "None"
    /\ br_exception = "None"

FtIdle ==
    /\ ft_client = "None"
    /\ ft_fetcher = "None"
    /\ ft_exception = "None"
    /\ ft_cache = {}
    /\ ft_calls = <<>>
    /\ br_name = "None"
    /\ br_kwargs = {}
    /\ br_broker = "None"
    /\ br_exception = "None"

\* DataFetcherFactory.get_fetcher(client)
GetFetcher ==
    /\ ft_client = "None"
    /\ ft_fetcher = "None"
    /\ \E client \in DataClients :
         /\ ft_client' = client
         /\ ft_fetcher' = IF get_fetcher(client).raised = "None"
                          THEN get_fetcher(client).value[1] ELSE "None"
         /\ ft_exception' = get_fetcher(client).raised
    /\ UNCHANGED <<ft_cache, ft_calls, br_name, br_kwargs, br_broker, br_exception>>
    /\ UNCHANGED notFt

\* the constructor of a subclass of AlpacaFetcher that completes the
\* abstract method: __init__ builds the two clients and the logger
AlpacaFetcherInit ==
    /\ ft_client = "None"
    /\ ft_fetcher = "None"
    /\ ft_fetcher' = "AlpacaFetcher"
    /\ UNCHANGED <<ft_client, ft_exception, ft_cache, ft_calls,
                   br_name, br_kwargs, br_broker, br_exception>>
    /\ UNCHANGED notFt

\* BrokerFactory.get_broker(name, **kwargs)
GetBroker ==
    /\ br_name = "None"
    /\ \E name \in BrokerNames, kwargs \in BrokerKwargs :
         /\ br_name' = name
         /\ br_kwargs' = kwargs
         /\ br_broker' = IF get_broker(name, kwargs).raised = "None"
                         THEN get_broker(name, kwargs).value[1] ELSE "None"
         /\ br_exception' = get_broker(name, kwargs).raised
    /\ UNCHANGED <<ft_client, ft_fetcher, ft_exception, ft_cache, ft_calls>>
    /\ UNCHANGED notFt

FetchCall(method, request, r) ==
    /\ ft_calls' = Append(ft_calls, [method |-> method, request |-> request,
                                     raised |-> r.raised, returned |-> r.returned,
                                     events |-> r.events])
    /\ ft_cache' = r.cache
    /\ UNCHANGED <<ft_client, ft_fetcher, ft_exception,
                   br_name, br_kwargs, br_broker, br_exception>>
    /\ UNCHANGED notFt

\* AlpacaFetcher.get_historical_crypto_data
GetHistoricalCryptoData ==
    /\ ft_fetcher = "AlpacaFetcher"
    /\ Len(ft_calls) < MaxFetches
    /\ \E request \in Requests(CryptoSymbols), remote \in RemoteOutcomes :
         FetchCall("get_historical_crypto_data", request,
                   alpaca_fetch(request, remote, ft_cache))

\* AlpacaFetcher.get_historical_stocks_data
GetHistoricalStocksData ==
    /\ ft_fetcher = "AlpacaFetcher"
    /\ Len(ft_calls) < MaxFetches
    /\ \E request \in Requests(StockSymbols), remote \in RemoteOutcomes :
         FetchCall("get_historical_stocks_data", request,
                   alpaca_fetch(request, remote, ft_cache))

\* PolygonFetcher.get_historical_data
PolygonGetHistoricalData ==
    /\ ft_fetcher = "PolygonFetcher"
    /\ Len(ft_calls) < MaxFetches
    /\ \E request \in Requests(CryptoSymbols) :
         FetchCall("get_historical_data", request, polygon_fetch(request, ft_cache))

(***************************************************************************)
(* EMAcrossoverStrategy.generate_signals                                   *)
(***************************************************************************)
MaxEmaBars == 4

EmaConfigs ==
    { [short_ema |-> 1, long_ema |-> 3], [short_ema |-> 2, long_ema |-> 3] }

\* series.ewm(span=span, adjust=False).mean() at row t:
\* y[1] = x[1], y[t] = alpha * x[t] + (1 - alpha) * y[t-1], alpha = 2 / (span + 1)
RECURSIVE Ewm(_, _, _)
Ewm(series, span, t) ==
    IF t = 1 THEN series[1]
    ELSE RAdd(RMul(Rat(2, span + 1), series[t]),
              RMul(RSub(R(1), Rat(2, span + 1)), Ewm(series, span, t - 1)))

\* the window of the ATR (rolling(14), no min_periods)
EmaAtrWindow == 14

ema_generate_signals(c, df) ==
    LET close     == Column(df, "close")
        ema_short == [t \in 1..Len(df) |-> Ewm(close, c.short_ema, t)]
        ema_long  == [t \in 1..Len(df) |-> Ewm(close, c.long_ema, t)]
        tr        == [t \in 1..Len(df) |-> TrueRange(df, t)]
    IN  [t \in 1..Len(df) |->
            [buy  |-> RGt(ema_short[t], ema_long[t])
                        /\ RLe(Shift1(ema_short, t), Shift1(ema_long, t)),
             sell |-> FALSE,
             ema_short |-> ema_short[t],
             ema_long  |-> ema_long[t],
             atr  |-> RollingMeanFull(tr, EmaAtrWindow, t)]]

\* an object of a subclass that completes the abstract backtest, and the
\* frame generate_signals is about to be called with
EmaInit ==
    /\ ema_cfg \in EmaConfigs
    /\ ema_df \in SeqsUpTo(Bars, MaxEmaBars)
    /\ ema_signals = <<>>
    /\ ema_pc = "constructed"

EmaIdle ==
    /\ ema_cfg \in {c \in EmaConfigs : c.short_ema = 1}
    /\ ema_df = <<>>
    /\ ema_signals = <<>>
    /\ ema_pc = "unused"

\* generate_signals(df)
EmaGenerateSignals ==
    /\ ema_pc = "constructed"
    /\ ema_signals' = ema_generate_signals(ema_cfg, ema_df)
    /\ ema_pc' = "returned"
    /\ UNCHANGED <<ema_cfg, ema_df>>
    /\ UNCHANGED notEma

(***************************************************************************)
(* DonchianATRStrategy.generate_signals                                    *)
(***************************************************************************)
MaxDatrBars == 3

\* sma_trend is <<w>>, or <<>> for None
DatrConfigs ==
    { [donchian_entry |-> 1, donchian_exit |-> 1, atr_period |-> 2,
       atr_mult_entry |-> R(1), sma_trend |-> <<2>>, sma_mom |-> 2],
      [donchian_entry |-> 2, donchian_exit |-> 1, atr_period |-> 1,
       atr_mult_entry |-> Rat(1, 2), sma_trend |-> <<>>, sma_mom |-> 3] }

\* series.rolling(window=w, min_periods=1).max() at row t: row t is in the window
RollingMax(series, w, t) == SeqMax(LastN(SubSeq(series, 1, t), w))

RollingMin(series, w, t) == SeqMin(LastN(SubSeq(series, 1, t), w))

datr_generate_signals(c, df) ==
    LET high  == Column(df, "high")
        low   == Column(df, "low")
        close == Column(df, "close")
        tr    == [t \in 1..Len(df) |-> TrueRange(df, t)]
        atr   == [t \in 1..Len(df) |-> RollingMean(tr, c.atr_period, t)]
    IN  [t \in 1..Len(df) |->
            LET donchian_high_entry == RollingMax(high, c.donchian_entry, t)
                donchian_low_exit   == RollingMin(low, c.donchian_exit, t)
                today_range  == RSub(high[t], low[t])
                atr_median50 == RollingMedian(atr, MedianWindow, t)
                vol_ok     == RGt(today_range, RMul(c.atr_mult_entry, atr_median50))
                trend_long == IF c.sma_trend # <<>>
                              THEN RGt(close[t], RollingMean(close, c.sma_trend[1], t))
                              ELSE TRUE
                mom_ok     == RGt(close[t], RollingMean(close, c.sma_mom, t))
            IN  [buy  |-> RGt(close[t], donchian_high_entry)
                            /\ vol_ok /\ trend_long /\ mom_ok,
                 sell |-> RLt(close[t], donchian_low_exit),
                 atr  |-> atr[t],
                 donchian_high_entry |-> donchian_high_entry,
                 donchian_low_exit   |-> donchian_low_exit]]

\* an object of a subclass that completes the abstract backtest, and the
\* frame generate_signals is about to be called with
DatrInit ==
    /\ datr_cfg \in DatrConfigs
    /\ datr_df \in SeqsUpTo(Bars, MaxDatrBars)
    /\ datr_signals = <<>>
    /\ datr_pc = "constructed"

DatrIdle ==
    /\ datr_cfg \in {c \in DatrConfigs : c.donchian_entry = 1}
    /\ datr_df = <<>>
    /\ datr_signals = <<>>
    /\ datr_pc = "unused"

\* generate_signals(df)
DatrGenerateSignals ==
    /\ datr_pc = "constructed"
    /\ datr_signals' = datr_generate_signals(datr_cfg, datr_df)
    /\ datr_pc' = "returned"
    /\ UNCHANGED <<datr_cfg, datr_df>>
    /\ UNCHANGED notDatr

(***************************************************************************)
(* Specifications: one strategy object under test in each.                 *)
(***************************************************************************)
Init == DonInit /\ SmpIdle /\ SmaIdle /\ BtIdle /\ S1Idle /\ FtIdle /\ EmaIdle /\ DatrIdle

Next == BacktestStart \/ CheckStops \/ HandleOrder \/ TrackEquity

\* a run of FilteredDonchianStrategy.backtest
Spec == Init /\ [][Next]_vars

SmpSpecInit == SmpInit /\ DonIdle /\ SmaIdle /\ BtIdle /\ S1Idle /\ FtIdle /\ EmaIdle /\ DatrIdle

SmpSpecNext == SmpBacktestStart \/ SmpRow

\* a run of SimpleMovingAverageProfitStrategy.backtest
SmpSpec == SmpSpecInit /\ [][SmpSpecNext]_vars

SmaSpecInit == SmaInit /\ DonIdle /\ SmpIdle /\ BtIdle /\ S1Idle /\ FtIdle /\ EmaIdle /\ DatrIdle

SmaSpecNext == SmaBacktestStart \/ SmaRow \/ SmaFinish

\* a run of SMAStrategy.backtest
SmaSpec == SmaSpecInit /\ [][SmaSpecNext]_vars

RerunSpecNext ==
    BacktestStart \/ CheckStops \/ HandleOrder \/ TrackEquity \/ BacktestAgain

\* FilteredDonchianStrategy.backtest called twice on one object
RerunSpec == Init /\ [][RerunSpecNext]_vars

SmpLowSpecInit ==
    SmpLowInit /\ DonIdle /\ SmaIdle /\ BtIdle /\ S1Idle /\ FtIdle /\ EmaIdle /\ DatrIdle

\* a run of SimpleMovingAverageProfitStrategy.backtest on a strategy with
\* little capital
SmpLowSpec == SmpLowSpecInit /\ [][SmpSpecNext]_vars

LedgerSpecInit ==
    /\ DonIdle /\ BtIdle /\ S1Idle /\ FtIdle /\ EmaIdle /\ DatrIdle
    /\ \/ SmaInit /\ SmpIdle
       \/ SmaIdle /\ SmpInit

LedgerSpecNext ==
    SmaBacktestStart \/ SmaRow \/ SmaFinish \/ SmpBacktestStart \/ SmpRow

\* one of the two strategies that hold a single position under test
LedgerSpec == LedgerSpecInit /\ [][LedgerSpecNext]_vars

LowSpecInit ==
    DonLowInit /\ SmpIdle /\ SmaIdle /\ BtIdle /\ S1Idle /\ FtIdle /\ EmaIdle /\ DatrIdle

\* a run of FilteredDonchianStrategy.backtest on a strategy with little capital
LowSpec == LowSpecInit /\ [][Next]_vars

WideSpecInit ==
    DonWideInit /\ SmpIdle /\ SmaIdle /\ BtIdle /\ S1Idle /\ FtIdle /\ EmaIdle /\ DatrIdle

\* a run of FilteredDonchianStrategy.backtest over every pair of channel
\* windows, on bars that only keep high >= low
WideSpec == WideSpecInit /\ [][Next]_vars

OrderSpecInit == OrderInit /\ SmpIdle /\ SmaIdle /\ BtIdle /\ S1Idle /\ FtIdle /\ EmaIdle /\ DatrIdle

OrderSpecNext == CallHandleOrder

\* calls of FilteredDonchianStrategy.handle_order
OrderSpec == OrderSpecInit /\ [][OrderSpecNext]_vars

ProfitSpecInit ==
    /\ DonIdle /\ SmaIdle /\ BtIdle /\ FtIdle /\ EmaIdle /\ DatrIdle
    /\ \/ SmpInit /\ S1Idle
       \/ SmpIdle /\ S1Init

ProfitSpecNext ==
    SmpBacktestStart \/ SmpRow \/ S1CallHandleOrder \/ S1BacktestStart \/ S1Row

\* one of the two profit-gated strategies under test
ProfitSpec == ProfitSpecInit /\ [][ProfitSpecNext]_vars

S1SpecInit ==
    S1FreshInit /\ DonIdle /\ SmpIdle /\ SmaIdle /\ BtIdle /\ FtIdle /\ EmaIdle /\ DatrIdle

S1SpecNext == S1BacktestStart \/ S1Row

\* a run of SimpleMovingAverageProfitStrategy1.backtest on a fresh object
S1Spec == S1SpecInit /\ [][S1SpecNext]_vars

SmaRawSpecInit == SmaRawInit /\ DonIdle /\ SmpIdle /\ BtIdle /\ S1Idle /\ FtIdle /\ EmaIdle /\ DatrIdle

\* a run of SMAStrategy.backtest on a frame read from text
SmaRawSpec == SmaRawSpecInit /\ [][SmaSpecNext]_vars

RunSpecInit == BtInit /\ DonIdle /\ SmpIdle /\ S1Idle /\ FtIdle /\ EmaIdle /\ DatrIdle

RunSpecNext ==
    RunDelegate \/ RunGeneric \/ SmaRow \/ SmaFinish \/ RunReturn \/ RunExcept

\* a run of Backtester.run
RunSpec == RunSpecInit /\ [][RunSpecNext]_vars

FetchSpecInit ==
    FtInit /\ DonIdle /\ SmpIdle /\ SmaIdle /\ BtIdle /\ S1Idle /\ EmaIdle /\ DatrIdle

FetchSpecNext ==
    GetFetcher \/ AlpacaFetcherInit \/ GetBroker \/ GetHistoricalCryptoData
        \/ GetHistoricalStocksData \/ PolygonGetHistoricalData

\* the factories called, then calls on the fetcher obtained
FetchSpec == FetchSpecInit /\ [][FetchSpecNext]_vars

CrossSpecInit ==
    /\ DonIdle /\ SmaIdle /\ BtIdle /\ S1Idle /\ FtIdle /\ DatrIdle
    /\ \/ SmpInit /\ EmaIdle
       \/ SmpIdle /\ EmaInit

CrossSpecNext == SmpBacktestStart \/ SmpRow \/ EmaGenerateSignals

\* one of the two crossover strategies under test
CrossSpec == CrossSpecInit /\ [][CrossSpecNext]_vars

DatrSpecInit ==
    DatrInit /\ DonIdle /\ SmpIdle /\ SmaIdle /\ BtIdle /\ S1Idle /\ FtIdle /\ EmaIdle

DatrSpecNext == DatrGenerateSignals

\* a call of DonchianATRStrategy.generate_signals
DatrSpec == DatrSpecInit /\ [][DatrSpecNext]_vars

(***************************************************************************)
(* Claims about FilteredDonchianStrategy.                                  *)
(***************************************************************************)
OpenOf(ps, side) == {k \in 1..Len(ps) : ps[k].side = side /\ ~ps[k].closed}

Closed(ps) == {k \in 1..Len(ps) : ps[k].closed}

\* the P&L realized by the closed positions
RealizedPnl(ps) ==
    RSum([k \in 1..Len(ps) |-> IF ps[k].closed THEN StopPnl(ps[k]) ELSE R(0)])

\* C1: at every point of backtest at most one long and at most one short
\* position is not closed.
C1_OneOpenPositionPerSide ==
    \A side \in {1, -1} : Cardinality(OpenOf(positions, side)) <= 1

\* C1 witness: a bar carried a buy signal while a long opened on an earlier
\* bar was still open, and handle_order has run on it.
C1_Witness ==
    /\ pc = "equity"
    /\ df_signals[idx].buy
    /\ \E k \in OpenOf(positions, 1) : positions[k].entry_time < idx
    /\ OpenOf(positions, -1) = {}

\* the longs opened before row t
LongsBefore(ps, t) == {k \in 1..Len(ps) : ps[k].side = 1 /\ ps[k].entry_time < t}

\* C2: when the low of a bar breaches the stop of the latest long and the bar
\* carries a buy signal, then after the bar's order handling that long is
\* closed, capital holds its realized P&L, and (unless the ATR or the minimum
\* notional rejects the order) a new long has been opened on this bar, sized
\* from the capital after the stop and logged with it.
C2_StopBeforeEntry ==
    (pc = "equity" /\ df_signals[idx].buy /\ LongsBefore(positions, idx) # {}) =>
        LET k   == CHOOSE j \in LongsBefore(positions, idx) :
                        \A i \in LongsBefore(positions, idx) : i <= j
            row == df_signals[idx]
            price == R(historical_data[idx].close)
        IN  RLe(R(historical_data[idx].low), positions[k].stop_price) =>
              /\ positions[k].closed
              /\ capital = RAdd(cfg.initial_capital, RealizedPnl(positions))
              /\ (~IsNaN(row.atr) /\ row.atr # R(0)
                    /\ ~BelowMinNotional(cfg, capital, price, row)) =>
                   LET new == positions[Len(positions)]
                   IN  /\ new.side = 1 /\ new.entry_time = idx /\ ~new.closed
                       /\ new.size = OrderSize(cfg, capital, price, row)
                       /\ trade_log[Len(trade_log)].capital = capital
                       /\ trade_log[Len(trade_log)].time = idx

\* C2 witness: the long opened on the previous bar was stopped out on this
\* bar and a new long was opened on this bar.
C2_Witness ==
    /\ pc = "equity"
    /\ df_signals[idx].buy
    /\ \E k \in 1..Len(positions) :
         /\ positions[k].side = 1 /\ positions[k].entry_time = idx - 1
         /\ positions[k].closed
         /\ RLe(R(historical_data[idx].low), positions[k].stop_price)
    /\ \E k \in OpenOf(positions, 1) : positions[k].entry_time = idx
    /\ capital # cfg.initial_capital

\* C3: on a freshly constructed strategy the returned equity curve has one
\* point per bar, the k-th point labelled with the k-th bar.
C3_EquityPointPerBar ==
    pc = "returned" =>
        /\ Len(equity_curve) = Len(historical_data)
        /\ \A k \in 1..Len(equity_curve) : equity_curve[k].time = k

\* C3 witness: a run over at least two bars returned, one of them traded.
C3_Witness ==
    /\ pc = "returned"
    /\ Len(historical_data) >= 2
    /\ Len(equity_curve) >= 2
    /\ trade_log # <<>>

\* what the stop evaluation of one bar must make of one position
C5_Expected(p, bar) ==
    IF ~p.closed /\ p.side = 1 /\ RGe(p.stop_price, R(bar.low)) THEN
        [pos |-> [p EXCEPT !.closed = TRUE],
         pnl |-> RMul(RSub(p.stop_price, p.entry_price), p.size)]
    ELSE IF ~p.closed /\ p.side = -1 /\ RLe(p.stop_price, R(bar.high)) THEN
        [pos |-> [p EXCEPT !.closed = TRUE],
         pnl |-> RMul(RSub(p.entry_price, p.stop_price), p.size)]
    ELSE [pos |-> p, pnl |-> R(0)]

\* C5: the stop evaluation of a bar closes exactly the open longs whose stop
\* is >= the low and the open shorts whose stop is <= the high, adds
\* (stop - entry) * size, resp. (entry - stop) * size, to capital for each,
\* and leaves every other position and its share of capital unchanged.
C5_StopEvaluation ==
    [][pc = "stops" =>
        /\ Len(positions') = Len(positions)
        /\ \A k \in 1..Len(positions) :
             positions'[k] = C5_Expected(positions[k], historical_data[idx]).pos
        /\ capital' = RAdd(capital,
             RSum([k \in 1..Len(positions) |->
                     C5_Expected(positions[k], historical_data[idx]).pnl]))]_vars

\* C5 witness: the stop evaluation of this bar has closed the short opened on
\* the previous bar at its stop, and capital holds its loss.
C5_Witness ==
    /\ pc = "order"
    /\ \E k \in Closed(positions) :
         /\ positions[k].side = -1
         /\ positions[k].entry_time = idx - 1
         /\ RGe(R(historical_data[idx].high), positions[k].stop_price)
         /\ capital = RAdd(cfg.initial_capital, StopPnl(positions[k]))
    /\ RLt(capital, cfg.initial_capital)

\* C6 (as claimed): the ledger holds one record per entry and one per exit.
C6_ExitTradeRecorded ==
    Len(trade_log) = Len(positions) + Cardinality(Closed(positions))

(***************************************************************************)
(* Claims about SimpleMovingAverageProfitStrategy.                         *)
(***************************************************************************)
\* C4 (as claimed): the returned equity trajectory has one point for every
\* bar of the input, whatever the bar's values.
C4_EquityPointForEveryBar ==
    smp_pc = "returned" => Len(smp_equity_curve) = Len(smp_data)

\* C10 (as claimed): closes [10, 11, 12, 9, 8] with short_window = 2 and
\* long_window = 3 give exactly one 'buy', on the third bar.
C10_OneBuyOnThirdBar ==
    (/\ smp_pc # "constructed"
     /\ smp_data = <<R(10), R(11), R(12), R(9), R(8)>>
     /\ smp_cfg.short_window = 2 /\ smp_cfg.long_window = 3) =>
        {t \in 1..Len(smp_signals) : smp_signals[t].signal = "buy"} = {3}

(***************************************************************************)
(* Claims about SMAStrategy.                                               *)
(***************************************************************************)
SmaEnded == sma_pc \in {"returned", "raised"}

\* the zero-trade metrics record of the specification
C7_ZeroRecord ==
    [final_capital |-> R(10000), cagr |-> R(0), sharpe |-> R(0), max_drawdown |-> R(0),
     avg_trades_per_day |-> R(0), avg_trades_per_month |-> R(0)]

\* C7: a backtest over at least one bar that executes no trade returns, and
\* returns exactly the zero-trade record with final_capital 10000.
C7_NoTradeMetrics ==
    (SmaEnded /\ Len(sma_data) >= 1 /\ sma_trades = <<>>) =>
        sma_pc = "returned" /\ sma_result = C7_ZeroRecord

\* C7 witness: a run over several bars returned without a trade although a
\* bar carried a sell signal.
C7_Witness ==
    /\ sma_pc = "returned"
    /\ Len(sma_data) >= 2
    /\ sma_trades = <<>>
    /\ \E t \in 1..Len(sma_signals) : sma_signals[t].signal = -1
    /\ Len(sma_equity_curve) = Len(sma_data)

\* C8 (as claimed): a backtest over an empty bar sequence does not raise and
\* returns the zero-trade record.
C8_EmptyDataReturnsZeroRecord ==
    (SmaEnded /\ Len(sma_data) = 0) =>
        sma_pc = "returned" /\ sma_result = C7_ZeroRecord

\* the recorded balances never decrease
C9_Monotone(trades) ==
    \A k \in 2..Len(trades) : RLe(trades[k - 1].balance, trades[k].balance)

\* C9 (as claimed): the returned max_drawdown is <= 0 for every ledger of a
\* run, and it is 0 whenever the recorded balances never decrease.
C9_MaxDrawdownNonPositive ==
    sma_pc = "returned" =>
        /\ RLe(sma_result.max_drawdown, R(0))
        /\ C9_Monotone(sma_trades) => sma_result.max_drawdown = R(0)

(***************************************************************************)
(* Claims about FilteredDonchianStrategy: sizing and frame of handle_order *)
(***************************************************************************)
\* the sizes handle_order works out for the entry logged as trade tr, from
\* the capital it logged and the row's ATR
C11_StopDistance(tr) == RMul(cfg.stop_atr_mult, df_signals[tr.time].atr)

C11_DollarRisk(tr) == RMul(tr.capital, cfg.risk_per_trade)

C11_Cap(tr) == RMul(cfg.max_notional_per_position, tr.capital)

C11_Clamped(tr) ==
    RGt(RMul(RDiv(C11_DollarRisk(tr), C11_StopDistance(tr)), tr.price), C11_Cap(tr))

\* C11: every accepted entry is sized as dollar risk / stop distance (capital
\* 10,000, risk 0.01, multiple 2, ATR 5 give size 10), replaced by
\* (max_notional_per_position * capital) / price when its notional exceeds
\* the cap; the Position and the Trade both hold the clamped size, and the
\* recorded size * price never exceeds max_notional_per_position * capital
C11_SizingAndClamp ==
    /\ RiskSize([risk_per_trade |-> Rat(1, 100), stop_atr_mult |-> R(2)],
                R(10000), [atr |-> R(5)]) = R(10)
    /\ pc # "unused" =>
         /\ Len(positions) = Len(trade_log)
         /\ \A k \in 1..Len(trade_log) :
              LET tr == trade_log[k]
              IN  /\ tr.size = IF C11_Clamped(tr)
                               THEN RDiv(C11_Cap(tr), tr.price)
                               ELSE RDiv(C11_DollarRisk(tr), C11_StopDistance(tr))
                  /\ positions[k].size = tr.size
                  /\ RLe(RMul(tr.size, tr.price), C11_Cap(tr))

\* an entry whose size was clamped has been recorded
C11_Witness ==
    /\ pc = "returned"
    /\ \E k \in 1..Len(trade_log) : C11_Clamped(trade_log[k])

(***************************************************************************)
(* Claims about Backtester.run                                             *)
(***************************************************************************)
\* C12: run swallows no failure: when the strategy's backtest raised, run has
\* logged the error and raises the same exception; run returns a value only
\* when the run path completed without raising
C12_FailurePropagates ==
    /\ bt_pc = "returned" => sma_pc # "raised" /\ bt_exception = None
    /\ bt_pc = "raised" =>
         /\ sma_pc = "raised"
         /\ bt_exception = sma_result
         /\ bt_results = None
         /\ bt_log = <<BtError(sma_result)>>
    /\ (bt_pc = "delegated" /\ sma_pc = "raised") => ENABLED RunExcept

\* the strategy's backtest raised KeyError and run has raised it again
C12_Witness ==
    /\ bt_pc = "raised"
    /\ bt_exception = "KeyError"

\* C13: run returns what strategy.backtest returns when the strategy has one;
\* otherwise it runs the generic simulation loop over the bars and returns a
\* result record
C13_DelegateOrGenericLoop ==
    bt_pc = "returned" =>
        IF HasBacktest(bt_strategy) THEN bt_results = sma_result
        ELSE bt_results # None

\* C14: a Backtester(SMAStrategy, data, initial_capital = C) run without a
\* trade reports final_capital = C
C14_NoTradeFinalCapitalIsInitial ==
    (bt_pc = "returned" /\ HasBacktest(bt_strategy) /\ Len(sma_trades) = 0) =>
        bt_results.final_capital = bt_initial_capital

(***************************************************************************)
(* Claims about SMAStrategy: the reported final capital                    *)
(***************************************************************************)
\* C15: a run of SMAStrategy.backtest with at least one trade reports as
\* final_capital the cash balance held when the loop over the bars ended,
\* whether or not a position is still open
C15_FinalCapitalIsLastBalance ==
    (sma_pc = "returned" /\ Len(sma_trades) >= 1) =>
        sma_result.final_capital = sma_balance

\* a run with a buy, a sell and a second buy has returned, its position open
C15_Witness ==
    /\ sma_pc = "returned"
    /\ Len(sma_trades) >= 2
    /\ RGt(sma_position, R(0))
    /\ sma_result.final_capital = sma_balance
    /\ sma_trades[1].balance # sma_balance

(***************************************************************************)
(* Claims about FilteredDonchianStrategy.handle_order called on its own    *)
(***************************************************************************)
C16_AtrUnusable(row) == IsNaN(row.atr) \/ row.atr = R(0)

\* size * price of the entry the row asks for, before the cap
C16_Notional(cap, price, row) ==
    RMul(RDiv(RMul(cap, cfg.risk_per_trade), RMul(cfg.stop_atr_mult, row.atr)),
         R(price))

C16_SameSideOpen(ps, row) ==
    \E k \in 1..Len(ps) :
        /\ ~ps[k].closed
        /\ ps[k].side = (IF row.buy THEN 1 ELSE -1)

\* the row of a call asks for an entry that handle_order has to skip
C16_MustSkip(ps, cap, price, row) ==
    /\ row.buy \/ row.sell
    /\ \/ C16_AtrUnusable(row)
       \/ RLt(C16_Notional(cap, price, row), cfg.min_notional)
       \/ C16_SameSideOpen(ps, row)

C16_Step ==
    Len(df_signals') = Len(df_signals) + 1 =>
        LET row == df_signals'[Len(df_signals')]
            price == historical_data'[Len(historical_data')].close
        IN  C16_MustSkip(positions, capital, price, row) =>
                UNCHANGED <<positions, trade_log, capital>>

\* C16: handle_order leaves positions, trade_log and capital unchanged when
\* the row's ATR is NaN or zero, when size * price is below min_notional, and
\* when a non-closed position of the signalled side exists
C16_SkippedEntryFrame == [][C16_Step]_vars

\* four calls: a buy with a zero ATR, an accepted buy, a second buy while the
\* long is open, and a sell too small for min_notional; one entry was made
C16_Witness ==
    /\ Len(df_signals) = 4
    /\ df_signals[1].buy /\ df_signals[1].atr = R(0)
    /\ df_signals[2].buy /\ df_signals[2].atr = R(1)
    /\ df_signals[3].buy /\ df_signals[3].atr = R(1)
    /\ df_signals[4].sell /\ df_signals[4].atr = R(50)
    /\ RLt(C16_Notional(capital, historical_data[4].close, df_signals[4]), cfg.min_notional)
    /\ Len(positions) = 1 /\ positions[1].entry_time = 2
    /\ Len(trade_log) = 1
    /\ capital = cfg.initial_capital

(***************************************************************************)
(* Claims about the profit-gated strategies                                *)
(***************************************************************************)
\* every sell of a ledger follows the buy of the position it closes, at a
\* higher price
C17_SellsAboveEntry(ledger, kind) ==
    \A k \in 1..Len(ledger) :
        ledger[k][kind] = "sell" =>
            /\ k > 1
            /\ ledger[k - 1][kind] = "buy"
            /\ RGt(ledger[k].price, ledger[k - 1].price)

\* a row of SimpleMovingAverageProfitStrategy.backtest with a sell signal at
\* a price not above the entry price of the open position changes nothing
C17_SmpStep ==
    smp_pc = "loop" =>
        LET row == smp_signals[smp_idx]
        IN  (row.signal = "sell" /\ smp_position > 0 /\ ~RGt(row.close, smp_entry_price)) =>
                UNCHANGED <<smp_position, smp_entry_price, smp_capital, smp_trade_log>>

\* a call of SimpleMovingAverageProfitStrategy1.handle_order, in backtest or
\* direct, with a sell signal at a price not above the entry price
C17_S1Step ==
    /\ s1_pc = "loop" =>
         LET row == s1_signals[s1_idx]
         IN  (row.signal = "sell" /\ s1_position = "long"
                 /\ ~RGt(row.close, s1_entry_price)) =>
                 UNCHANGED <<s1_position, s1_entry_price, s1_trades>>
    /\ s1_calls' = s1_calls + 1 =>
         LET row == s1_signals'[1]
         IN  (row.signal = "sell" /\ s1_position = "long"
                 /\ ~RGt(row.close, s1_entry_price)) =>
                 UNCHANGED <<s1_position, s1_entry_price, s1_trades>>

\* C17: in both strategies every 'sell' in the ledger has a price strictly
\* above the entry price of the position it closes, and a 'sell' signal at a
\* price <= the recorded entry price leaves position, entry price, capital and
\* ledger unchanged
C17_ProfitGatedExit ==
    /\ [](C17_SellsAboveEntry(smp_trade_log, "side") /\ C17_SellsAboveEntry(s1_trades, "type"))
    /\ [][C17_SmpStep /\ C17_S1Step]_vars

\* SimpleMovingAverageProfitStrategy1 was called directly twice, bought at 10
\* and refused the other call, and its backtest sold at 11 and bought again
\* at 12
C17_Witness ==
    /\ s1_pc = "returned"
    /\ s1_calls = 2
    /\ s1_trades = <<[type |-> "buy", price |-> R(10)], [type |-> "sell", price |-> R(11)],
                     [type |-> "buy", price |-> R(12)]>>

(***************************************************************************)
(* Claims about FilteredDonchianStrategy: what a bar's processing reads    *)
(***************************************************************************)
\* the fields of a fresh object after backtest has processed bars 1..t of
\* data, the signals being sigs
RECURSIVE ReplayBars(_, _, _, _)
ReplayBars(c, data, sigs, t) ==
    IF t = 0
    THEN [capital |-> c.initial_capital, positions |-> <<>>, trade_log |-> <<>>,
          equity_curve |-> <<>>]
    ELSE LET before  == ReplayBars(c, data, sigs, t - 1)
             object  == [capital |-> before.capital, positions |-> before.positions,
                         trade_log |-> before.trade_log]
             stopped == CheckStopsFrom(object, data[t], 1)
             ordered == handle_order(c, stopped, R(data[t].close), sigs[t], t)
         IN  [capital |-> ordered.capital, positions |-> ordered.positions,
              trade_log |-> ordered.trade_log,
              equity_curve |-> Append(before.equity_curve,
                  [time |-> t,
                   equity |-> RAdd(ordered.capital,
                                   Unrealized(ordered.positions, R(data[t].close)))])]

\* the bars backtest has processed completely
C18_Processed ==
    IF pc = "returned" THEN Len(historical_data)
    ELSE IF pc = "stops" THEN idx - 1
    ELSE -1

\* C18: no lookahead. The signals of bar t and the capital, positions,
\* trade_log and equity points after bar t are those of a run on bars 1..t
\* alone; two bar sequences that agree up to bar t both agree with that run,
\* hence with each other
C18_NoLookahead ==
    C18_Processed >= 1 =>
        LET t      == C18_Processed
            prefix == SubSeq(historical_data, 1, t)
            sigs   == generate_signals(cfg, prefix)
            alone  == ReplayBars(cfg, prefix, sigs, t)
        IN  /\ df_signals[t] = sigs[t]
            /\ capital = alone.capital
            /\ positions = alone.positions
            /\ trade_log = alone.trade_log
            /\ equity_curve = alone.equity_curve

\* bar 2 of three bars has been processed and made an entry; bar 3 is still
\* to come
C18_Witness ==
    /\ pc = "stops" /\ idx = 3
    /\ Len(historical_data) = 3
    /\ Len(trade_log) = 1 /\ trade_log[1].time = 2
    /\ historical_data[3].high > historical_data[2].high

(***************************************************************************)
(* Claims about FilteredDonchianStrategy: the life of a position           *)
(***************************************************************************)
\* the capital a step adds
C19_Gain == RSub(capital', capital)

\* the P&L the step realizes: that of the positions it closes
C19_RealizedByStep ==
    RSum([k \in 1..Len(positions) |->
            IF ~positions[k].closed /\ positions'[k].closed
            THEN StopPnl(positions[k]) ELSE R(0)])

C19_Step ==
    \* positions are only appended, open
    /\ Len(positions') >= Len(positions)
    /\ \A k \in Len(positions) + 1..Len(positions') : ~positions'[k].closed
    /\ \A k \in 1..Len(positions) :
         \* the only change of a position is open -> closed
         /\ positions'[k] = positions[k]
              \/ (~positions[k].closed /\ positions'[k] = [positions[k] EXCEPT !.closed = TRUE])
         \* a closed position stays as it is
         /\ positions[k].closed => positions'[k] = positions[k]
    \* capital moves by the P&L of the positions closed in this step only
    /\ C19_Gain = C19_RealizedByStep
    \* a closed position does not block an entry on its side
    /\ (pc = "order" /\ pc' # "order" /\ Signal(df_signals[idx]) # 0
          /\ ~IsNaN(df_signals[idx].atr) /\ df_signals[idx].atr # R(0)
          /\ ~BelowMinNotional(cfg, capital, R(historical_data[idx].close), df_signals[idx])
          /\ \A k \in 1..Len(positions) :
                positions[k].side = Signal(df_signals[idx]) => positions[k].closed)
         => Len(positions') = Len(positions) + 1
    \* a closed position adds nothing to the equity point
    /\ Len(equity_curve') = Len(equity_curve) + 1 =>
         equity_curve'[Len(equity_curve')].equity =
            RAdd(capital, RSum([k \in 1..Len(positions) |->
                    IF positions[k].closed THEN R(0)
                    ELSE IF positions[k].side = 1
                         THEN RMul(RSub(R(historical_data[idx].close), positions[k].entry_price),
                                   positions[k].size)
                         ELSE RMul(RSub(positions[k].entry_price, R(historical_data[idx].close)),
                                   positions[k].size)]))

\* C19: a position goes NONE -> OPEN -> CLOSED and CLOSED is terminal: its
\* closed flag never returns to False, none of its fields changes, its P&L is
\* realized once, it adds nothing to equity and does not block a new entry
\* on its side
C19_ClosedIsTerminal == [][C19_Step]_vars

\* the first backtest stopped a long out on bar 3 and entered a new long on
\* that bar; the second backtest met bar 3 again, whose low is at or under
\* the stop of the closed long, and the capital is the initial capital and
\* the P&L of the closed positions, each once
C19_Witness ==
    /\ pc = "returned"
    /\ backtests = 2
    /\ Len(positions) >= 2
    /\ positions[1].side = 1 /\ positions[1].closed /\ positions[1].entry_time = 2
    /\ positions[2].side = 1 /\ positions[2].entry_time = 3
    /\ RLe(R(historical_data[3].low), positions[1].stop_price)
    /\ capital = RAdd(cfg.initial_capital, RealizedPnl(positions))
    /\ Len(equity_curve) = 6

(***************************************************************************)
(* Claims about FilteredDonchianStrategy: the equity points                *)
(***************************************************************************)
\* (close - entry) * size of a long, (entry - close) * size of a short
C20_Pnl(p, close) ==
    IF p.side = 1 THEN RMul(RSub(close, p.entry_price), p.size)
    ELSE RMul(RSub(p.entry_price, close), p.size)

RECURSIVE C20_SumOpen(_, _)
C20_SumOpen(ps, close) ==
    IF ps = <<>> THEN R(0)
    ELSE RAdd(IF Head(ps).closed THEN R(0) ELSE C20_Pnl(Head(ps), close),
              C20_SumOpen(Tail(ps), close))

\* C20: the equity point of bar t is the capital plus the unrealized P&L, at
\* the close of bar t, of the positions still open after the stop evaluation
\* and the entry evaluation of bar t; closed positions add nothing
C20_EquityPoint ==
    (pc \in {"stops", "order", "equity", "returned"} /\ backtests = 1) =>
        \A t \in 1..Len(equity_curve) :
            LET after == ReplayBars(cfg, historical_data, df_signals, t)
            IN  equity_curve[t] =
                    [time |-> t,
                     equity |-> RAdd(after.capital,
                                     C20_SumOpen(after.positions, R(historical_data[t].close)))]

\* the long entered on bar 2 is open after bar 3, whose close is not the
\* entry price: the equity point of bar 3 is not the capital
C20_Witness ==
    /\ pc = "returned"
    /\ Len(equity_curve) = 3
    /\ Len(positions) = 1 /\ ~positions[1].closed /\ positions[1].entry_time = 2
    /\ equity_curve[3].equity # capital
    /\ equity_curve[3].equity = RAdd(capital, C20_Pnl(positions[1], R(historical_data[3].close)))

(***************************************************************************)
(* Claims about repeated runs of FilteredDonchianStrategy.backtest         *)
(***************************************************************************)
\* what backtest returns on a freshly constructed object
C21_FreshRun ==
    ReplayBars(cfg, historical_data, generate_signals(cfg, historical_data),
               Len(historical_data))

\* C21: a second backtest on the same object with the same bars returns the
\* capital, trade ledger and equity trajectory of the first: each run starts
\* from the initial capital, no position, an empty ledger and an empty
\* equity trajectory
C21_SecondRunEqualsFirst ==
    (pc = "returned" /\ backtests = 2) =>
        /\ capital = C21_FreshRun.capital
        /\ trade_log = C21_FreshRun.trade_log
        /\ equity_curve = C21_FreshRun.equity_curve

(***************************************************************************)
(* Claims about the moving averages of the SMA strategies                  *)
(***************************************************************************)
\* the mean of the last w closes up to row t, of those there are when fewer
C22_PartialMean(close, w, t) == RMean(LastN(SubSeq(close, 1, t), w))

\* C22: the moving averages of SimpleMovingAverageProfitStrategy are defined
\* at every bar of numeric closes: during the first W-1 bars they are the mean
\* of the closes so far
C22_AverageDefinedAtEveryBar ==
    (smp_pc \in {"loop", "returned"} /\ \A t \in 1..Len(smp_data) : ~IsNaN(smp_data[t])) =>
        \A t \in 1..Len(smp_data) :
            /\ RollingMeanFull(smp_data, smp_cfg.short_window, t)
                 = C22_PartialMean(smp_data, smp_cfg.short_window, t)
            /\ RollingMeanFull(smp_data, smp_cfg.long_window, t)
                 = C22_PartialMean(smp_data, smp_cfg.long_window, t)

(***************************************************************************)
(* Claims about SMAStrategy: malformed input                               *)
(***************************************************************************)
\* a required price column is missing or holds a cell that is no number
C23_BadInput ==
    \/ MissingColumn(sma_open)
    \/ \E t \in 1..Len(sma_open.cells) : sma_open.cells[t] \notin {"1", "2", "3"}

\* C23: a bar sequence with a required price field missing or not coercible
\* to a number makes generate_signals / backtest fail with a data error; no
\* signals, trades or metrics are produced from it
C23_BadInputRaises ==
    (sma_pc \notin {"constructed", "unused"} /\ C23_BadInput) =>
        /\ sma_pc = "raised"
        /\ sma_result = "ValueError"
        /\ sma_signals = <<>>

(***************************************************************************)
(* Claims about the factories and the fetchers.                            *)
(***************************************************************************)
C24_Unsupported(request) == request.timeframe \notin {"day", "hour", "min", "absent"}

\* C24: unknown data-client and broker names and unsupported timeframes are
\* rejected with a ValueError when the component is constructed: a factory
\* called with an unknown name raises and returns no object, no call of a
\* fetch method raises the configuration error, and a fetch given an
\* unsupported timeframe is rejected before any cache lookup or remote request.
C24_RejectedAtConstruction ==
    /\ ft_client \notin {"None", "alpaca", "kraken", "polygon"} =>
           ft_exception = "ValueError" /\ ft_fetcher = "None"
    /\ br_name \notin {"None", "alpaca", "kraken"} =>
           br_exception = "ValueError" /\ br_broker = "None"
    /\ \A k \in 1..Len(ft_calls) :
           /\ ft_calls[k].raised # "ValueError"
           /\ C24_Unsupported(ft_calls[k].request) =>
                  ft_calls[k].events = <<>> /\ ft_calls[k].returned = <<>>

(***************************************************************************)
(* Claims about the crossover signals.                                     *)
(***************************************************************************)
\* the rows of a signal frame that carry a buy
C25_SmpBuys == {t \in 1..Len(smp_signals) : smp_signals[t].signal = "buy"}

C25_EmaBuys == {t \in 1..Len(ema_signals) : ema_signals[t].buy}

\* short average <= long average at row t, as each strategy computes them
C25_SmpNotAbove(t) ==
    RLe(RollingMeanFull(smp_data, smp_cfg.short_window, t),
        RollingMeanFull(smp_data, smp_cfg.long_window, t))

C25_EmaNotAbove(t) ==
    RLe(Ewm(Column(ema_df, "close"), ema_cfg.short_ema, t),
        Ewm(Column(ema_df, "close"), ema_cfg.long_ema, t))

C25_Suppressed(buys, NotAbove(_)) ==
    /\ \A t \in buys : t + 1 \notin buys
    /\ \A t1 \in buys, t2 \in buys :
           t1 < t2 => \E u \in (t1 + 1)..(t2 - 1) : NotAbove(u)

\* C25: in the signals of SimpleMovingAverageProfitStrategy and of
\* EMAcrossoverStrategy no two consecutive bars carry a buy, and between any
\* two buys there is a bar whose short average is at most its long average.
C25_CrossoverSuppression ==
    /\ C25_Suppressed(C25_SmpBuys, C25_SmpNotAbove)
    /\ C25_Suppressed(C25_EmaBuys, C25_EmaNotAbove)

\* generate_signals of EMAcrossoverStrategy returned two buys
C25_Witness == ema_pc = "returned" /\ Cardinality(C25_EmaBuys) >= 2

(***************************************************************************)
(* Claims about the signals of FilteredDonchianStrategy.                   *)
(***************************************************************************)
\* C26: on bars with high >= low, generate_signals sets buy and sell both
\* true on no bar, whatever the entry and exit windows.
C26_NeverBuyAndSell ==
    \A t \in 1..Len(df_signals) : ~(df_signals[t].buy /\ df_signals[t].sell)

\* the signals hold a buy and a sell, with windows of different lengths
C26_Witness ==
    /\ cfg.donchian_entry # cfg.donchian_exit
    /\ \E t \in 1..Len(df_signals) : df_signals[t].buy
    /\ \E t \in 1..Len(df_signals) : df_signals[t].sell

\* C27: buy is false on the bars whose entry channel is undefined (the first
\* donchian_entry bars), sell is false on the bars whose exit channel is
\* undefined (the first donchian_exit bars), and backtest opens no long
\* position on the former and no short position on the latter.
C27_WarmUpIsSilent ==
    /\ \A t \in 1..Len(df_signals) :
           /\ t <= cfg.donchian_entry =>
                  IsNaN(df_signals[t].donchian_high_entry) /\ ~df_signals[t].buy
           /\ t <= cfg.donchian_exit =>
                  IsNaN(df_signals[t].donchian_low_exit) /\ ~df_signals[t].sell
    /\ \A k \in 1..Len(positions) :
           /\ positions[k].side = 1 => positions[k].entry_time > cfg.donchian_entry
           /\ positions[k].side = -1 => positions[k].entry_time > cfg.donchian_exit

\* a backtest with a warm-up of two bars ended with a position opened on
\* the third
C27_Witness ==
    /\ pc = "returned"
    /\ cfg.donchian_entry = 2
    /\ \E k \in 1..Len(positions) : positions[k].side = 1 /\ positions[k].entry_time = 3

(***************************************************************************)
(* Claims about the equity curve of SMAStrategy.backtest.                  *)
(***************************************************************************)
C28_Last(s) == s[Len(s)]

\* C28: the equity an iteration of the loop records for its bar equals the
\* balance plus position * close as they stand after that bar's order, on
\* bars with a buy or a sell as on the others.
C28_Step ==
    (sma_pc = "loop" /\ Len(sma_equity_curve') = Len(sma_equity_curve) + 1) =>
        C28_Last(sma_equity_curve').equity =
            RAdd(sma_balance', RMul(sma_position', sma_signals[sma_idx].close))

C28_EquityAfterOrder == [][C28_Step]_vars

\* the last bar processed carried a sell that executed, after a buy executed
\* on an earlier bar
C28_Witness ==
    /\ Len(sma_trades) >= 2
    /\ C28_Last(sma_trades).type = "sell"
    /\ Len(sma_equity_curve) >= 1
    /\ C28_Last(sma_equity_curve).timestamp = C28_Last(sma_trades).timestamp
    /\ C28_Last(sma_equity_curve).equity = sma_balance
    /\ sma_position = R(0)

(***************************************************************************)
(* Claims about the signals of DonchianATRStrategy.                        *)
(***************************************************************************)
\* the close of bar t is above the highest high of the donchian_entry bars
\* before it
C29_Breakout(t) ==
    /\ t > datr_cfg.donchian_entry
    /\ RGt(R(datr_df[t].close),
           ShiftRollingMax(Column(datr_df, "high"), datr_cfg.donchian_entry, t))

\* the volatility, trend and momentum filters of bar t, as the code computes them
C29_FiltersPass(t) ==
    LET close == Column(datr_df, "close")
        tr    == [u \in 1..Len(datr_df) |-> TrueRange(datr_df, u)]
        atr   == [u \in 1..Len(datr_df) |-> RollingMean(tr, datr_cfg.atr_period, u)]
    IN  /\ RGt(R(datr_df[t].high - datr_df[t].low),
               RMul(datr_cfg.atr_mult_entry, RollingMedian(atr, MedianWindow, t)))
        /\ datr_cfg.sma_trend # <<>> =>
               RGt(close[t], RollingMean(close, datr_cfg.sma_trend[1], t))
        /\ RGt(close[t], RollingMean(close, datr_cfg.sma_mom, t))

\* C29 (as claimed): generate_signals sets buy on every bar whose close breaks
\* above the highest high of the preceding donchian_entry bars while the
\* volatility, trend and momentum filters pass.
C29_BreakoutBuys ==
    datr_pc = "returned" =>
        \A t \in 1..Len(datr_df) :
            (C29_Breakout(t) /\ C29_FiltersPass(t)) => datr_signals[t].buy

\* what the code does instead: on bars with close <= high no buy is ever set
C29_NeverBuys ==
    datr_pc = "returned" => \A t \in 1..Len(datr_signals) : ~datr_signals[t].buy

(***************************************************************************)
(* Claims about SimpleMovingAverageProfitStrategy1.backtest.               *)
(***************************************************************************)
\* the short average of the bar being processed is below its long average
C30_ShortBelowLong ==
    RLt(RollingMeanFull(s1_data, s1_cfg.short_window, s1_idx),
        RollingMeanFull(s1_data, s1_cfg.long_window, s1_idx))

\* C30 (as claimed): in a backtest on a freshly constructed strategy, a bar
\* processed while long, whose short average is below its long average and
\* whose close is above the entry price, sells: a 'sell' trade is appended
\* and position returns to None.
C30_Step ==
    (s1_pc = "loop" /\ s1_calls = 0 /\ s1_position = "long"
        /\ C30_ShortBelowLong /\ RGt(s1_data[s1_idx], s1_entry_price)) =>
            /\ s1_position' = "None"
            /\ s1_trades' = Append(s1_trades, [type |-> "sell", price |-> s1_data[s1_idx]])

C30_ProfitableCrossDownSells == [][C30_Step]_vars

(***************************************************************************)
(* Claims about the capital of FilteredDonchianStrategy.backtest.          *)
(***************************************************************************)
\* the positions a step closes
C31_ClosedByStep ==
    {k \in 1..Len(positions) : ~positions[k].closed /\ positions'[k].closed}

\* C31: capital never increases from one step of backtest to the next and
\* never exceeds the initial capital; it changes only where the stops are
\* checked, and every stop-out realizes a P&L <= 0 of magnitude at most
\* risk_per_trade * (the capital recorded at that position's entry).
C31_Step ==
    /\ RLe(capital', capital)
    /\ RLe(capital', cfg.initial_capital)
    /\ capital' # capital => pc = "stops"
    /\ \A k \in C31_ClosedByStep :
           /\ RLe(StopPnl(positions[k]), R(0))
           /\ RLe(RNeg(StopPnl(positions[k])),
                  RMul(cfg.risk_per_trade, trade_log[k].capital))

C31_CapitalNeverIncreases == [][C31_Step]_vars

\* a run returned after a stop-out on a clamped position lowered the capital
C31_Witness ==
    /\ pc = "returned"
    /\ RLt(capital, cfg.initial_capital)
    /\ \E k \in 1..Len(positions) :
           /\ positions[k].closed
           /\ RLt(RNeg(StopPnl(positions[k])),
                  RMul(cfg.risk_per_trade, trade_log[k].capital))

\* the notional of position k as sized from the risk, before the clamp, and
\* the cap on the notional, both at the capital recorded at its entry
C32_RiskNotional(k) ==
    RMul(RiskSize(cfg, trade_log[k].capital, df_signals[positions[k].entry_time]),
         positions[k].entry_price)

C32_Cap(k) == RMul(trade_log[k].capital, cfg.max_notional_per_position)

C32_Notional(k) == RMul(positions[k].size, positions[k].entry_price)

\* C32 (amended): every position recorded by handle_order was sized from the
\* risk to a notional of at least min_notional; the notional recorded is that
\* one or, when clamped, capital * max_notional_per_position, so it is at
\* least the smaller of min_notional and the cap.
C32_MinNotionalBeforeClamp ==
    \A k \in 1..Len(positions) :
        /\ RGe(C32_RiskNotional(k), cfg.min_notional)
        /\ C32_Notional(k) = IF RGt(C32_RiskNotional(k), C32_Cap(k))
                             THEN C32_Cap(k) ELSE C32_RiskNotional(k)
        /\ RGe(C32_Notional(k),
               IF RLt(C32_Cap(k), cfg.min_notional) THEN C32_Cap(k) ELSE cfg.min_notional)

\* a clamped position was recorded with a notional below min_notional
C32_Witness ==
    \E k \in 1..Len(positions) :
        /\ C32_Notional(k) = C32_Cap(k)
        /\ RLt(C32_Notional(k), cfg.min_notional)

\* C32 (as claimed): every position recorded by handle_order has a notional
\* size * entry_price of at least min_notional, the clamped ones included.
C32_NotionalAtLeastMin ==
    \A k \in 1..Len(positions) :
        RGe(RMul(positions[k].size, positions[k].entry_price), cfg.min_notional)

(***************************************************************************)
(* Claims about the ledgers of SMAStrategy and                             *)
(* SimpleMovingAverageProfitStrategy.                                      *)
(***************************************************************************)
C33_SmaTypes == [k \in 1..Len(sma_trades) |-> sma_trades[k].type]

C33_SmpTypes == [k \in 1..Len(smp_trade_log) |-> smp_trade_log[k].side]

\* buy, sell, buy, ... starting with a buy
C33_Alternates(types) ==
    \A k \in 1..Len(types) : types[k] = IF k % 2 = 1 THEN "buy" ELSE "sell"

C33_Buys(types) == Cardinality({k \in 1..Len(types) : types[k] = "buy"})

C33_Sells(types) == Cardinality({k \in 1..Len(types) : types[k] = "sell"})

\* C33 (as claimed): the ledgers of SMAStrategy.backtest and of
\* SimpleMovingAverageProfitStrategy.backtest alternate buy, sell, buy, ...
\* starting with a buy; a position is held exactly after a buy, and the buys
\* exceed the sells by 0 or 1.
C33_LedgerAlternates ==
    /\ C33_Alternates(C33_SmaTypes)
    /\ C33_Alternates(C33_SmpTypes)
    /\ RGt(sma_position, R(0)) <=> Len(sma_trades) % 2 = 1
    /\ smp_position = Len(smp_trade_log) % 2
    /\ C33_Buys(C33_SmaTypes) - C33_Sells(C33_SmaTypes) \in {0, 1}
    /\ C33_Buys(C33_SmpTypes) - C33_Sells(C33_SmpTypes) \in {0, 1}

\* C34 (as claimed): in SimpleMovingAverageProfitStrategy.backtest the capital
\* is >= 0 after every bar, for every initial capital > 0.
C34_CapitalNeverNegative == RGe(smp_capital, R(0))

(***************************************************************************)
(* Claims about the cache of the fetchers.                                 *)
(***************************************************************************)
\* the call a step makes, when it makes one
C35_Called == Len(ft_calls') = Len(ft_calls) + 1

C35_Call == ft_calls'[Len(ft_calls')]

\* the (symbol, start, end, timeframe) key of a request with a supported timeframe
C35_Key(request) ==
    cache_key(request.ticker, Strftime(request.start_date), Strftime(request.end_date),
              get_alpaca_time_frame(KwargsTimeframe(request, "day")).value[1])

C35_Cached(cache, key) == {f \in cache : f.key = key}

C35_Remotes(call) == {e \in 1..Len(call.events) : call.events[e][1] = "remote"}

\* one call of get_historical_crypto_data with a supported timeframe
C35_Step ==
    (C35_Called /\ C35_Call.method = "get_historical_crypto_data"
        /\ ~C24_Unsupported(C35_Call.request)) =>
        LET key == C35_Key(C35_Call.request)
            hit == C35_Cached(ft_cache, key)
        IN  IF hit # {}
            THEN /\ C35_Remotes(C35_Call) = {}
                 /\ C35_Call.raised = "None"
                 /\ \A f \in hit : C35_Call.returned[1].bars_of = f.bars_of
                 /\ ft_cache' = ft_cache
            ELSE /\ Cardinality(C35_Remotes(C35_Call)) = 1
                 /\ IF C35_Call.raised = "None"
                    THEN /\ C35_Call.returned[1].bars_of = <<C35_Call.request>>
                         /\ ft_cache' = ft_cache \cup
                                {[key |-> key, bars_of |-> C35_Call.returned[1].bars_of]}
                    ELSE /\ C35_Call.raised = "APIError"
                         /\ C35_Call.returned = <<>>
                         /\ ft_cache' = ft_cache

\* C35: get_historical_crypto_data is a read-through cache. A hit returns the
\* cached bars without a remote call; a miss makes one remote call, stores the
\* result under the (symbol, start, end, timeframe) key and returns it; a
\* remote call that raises writes nothing and is re-raised.
C35_ReadThrough == [][C35_Step]_vars

\* a request missed and was fetched, and the same request made again was
\* served from the cache
C35_Witness ==
    /\ Len(ft_calls) = 2
    /\ ft_calls[1].method = "get_historical_crypto_data"
    /\ ft_calls[2].method = "get_historical_crypto_data"
    /\ ft_calls[1].request = ft_calls[2].request
    /\ C35_Remotes(ft_calls[1]) # {}
    /\ ft_calls[1].raised = "None"
    /\ C35_Remotes(ft_calls[2]) = {}
    /\ ft_calls[2].returned[1].bars_of = ft_calls[1].returned[1].bars_of

\* the (instrument, start, end, timeframe) a request asks for, the default
\* timeframe filled in
C36_Asked(request) ==
    [request EXCEPT !.timeframe = KwargsTimeframe(request, "day")]

\* C36 (as claimed): a request is only ever served bars that were fetched for
\* exactly its own (instrument, start, end, timeframe).
C36_OwnBarsOnly ==
    \A k \in 1..Len(ft_calls) :
        (ft_calls[k].method # "get_historical_data" /\ ft_calls[k].returned # <<>>) =>
            \A j \in 1..Len(ft_calls[k].returned[1].bars_of) :
                C36_Asked(ft_calls[k].returned[1].bars_of[j]) = C36_Asked(ft_calls[k].request)

====
